---- MODULE Spec2Model ----
(***************************************************************************)
(* A model of the simulated desktop: the window manager (registry,         *)
(* z-order, centering, drag), the drawing-mode ("freeze") manager with its *)
(* document-level capture-phase interceptors, and the dispatch of DOM      *)
(* events through those interceptors.                                      *)
(*                                                                         *)
(* Lengths are CSS pixels.  Every width, height and pointer coordinate of  *)
(* the model is a multiple of 20, so the JavaScript real division by 2 of  *)
(* centerWindowNow is exact on the integers used here.                     *)
(***************************************************************************)
EXTENDS Integers, Sequences, FiniteSets, TLC

\* ------------------------------------------------------------------ bounds

\* the shared z-index counter is raised at most this many times
MaxBring == 2
\* closure generations of blockInteractions that may be alive at once
MaxClosures == 2
\* pointer-down listeners makeDrawnComputerDraggable may stack on the illustration
MaxDrawnListeners == 1
\* stopDrag timeouts that may be pending at once
MaxTimers == 2
\* startWebcam calls that may be awaiting at once
MaxCalls == 2
\* strokes drawn on the notepad canvas between two submissions
MaxStrokes == 1
\* trail clouds the intro may create
MaxSpawns == 32

\* --------------------------------------------------------------- constants

baseZIndex == 100
DragKeepX == 100
DragKeepY == 50
ResizeTolerance == 100
imgWidth == 900
imgHeight == 600

Max(a, b) == IF a >= b THEN a ELSE b
Min(a, b) == IF a <= b THEN a ELSE b

\* ------------------------------------------------------------ the document

\* the windows initializeWindows registers (.app-window, .browser-window)
WindowIds == {"browserWindow", "cameraWindow", "notepadWindow", "galleryWindow"}
\* the illustration is positioned and dragged, but is not a registered window
DrawnComputer == "drawnComputerWindow"
AllWindows == WindowIds \cup {DrawnComputer}
AppWindows == {"cameraWindow", "notepadWindow", "galleryWindow"}

\* the window each desktop icon opens on a double click
IconWindow ==
    [ cameraIcon |-> "cameraWindow", notepadIcon |-> "notepadWindow",
      galleryIcon |-> "galleryWindow" ]

IconIds == {"cameraIcon", "notepadIcon", "galleryIcon"}

\* The elements an event can target, each with its parent ("" above body).
Parent ==
    [ body                |-> "",
      desktopBackground   |-> "body",
      drawingModeToggle   |-> "body",
      toggleIcon          |-> "drawingModeToggle",
      drawnComputerWindow |-> "body",
      drawnComputerImage  |-> "drawnComputerWindow",
      browserWindow       |-> "body",
      browserHeader       |-> "browserWindow",
      browserCloseBtn     |-> "browserHeader",
      urlInput            |-> "browserWindow",
      cameraWindow        |-> "body",
      cameraHeader        |-> "cameraWindow",
      cameraCloseBtn      |-> "cameraHeader",
      cameraCanvas        |-> "cameraWindow",
      notepadWindow       |-> "body",
      notepadHeader       |-> "notepadWindow",
      notepadCloseBtn     |-> "notepadHeader",
      penColor            |-> "notepadWindow",
      galleryWindow       |-> "body",
      galleryHeader       |-> "galleryWindow",
      galleryGrid         |-> "galleryWindow",
      cameraIcon          |-> "desktopBackground",
      cameraIconImage     |-> "cameraIcon",
      notepadIcon         |-> "desktopBackground",
      galleryIcon         |-> "desktopBackground",
      noteArea            |-> "body",
      editableRegion      |-> "body" ]

Elements == DOMAIN Parent

\* e.target.tagName, for the elements the key interceptor distinguishes
TagName(el) ==
    CASE el \in {"urlInput", "penColor"} -> "INPUT"
      [] el = "noteArea" -> "TEXTAREA"
      [] el \in {"drawingModeToggle", "browserCloseBtn", "cameraCloseBtn",
                 "notepadCloseBtn"} -> "BUTTON"
      [] OTHER -> "DIV"

\* e.target.isContentEditable
IsContentEditable(el) == el = "editableRegion"

\* el and its ancestors, innermost first
RECURSIVE Ancestors(_)
Ancestors(el) == IF el = "" THEN {} ELSE {el} \cup Ancestors(Parent[el])

\* e.target.closest('#id') finds an element
Closest(el, id) == id \in Ancestors(el)

\* ------------------------------------------------------------------- state

VARIABLES
    \* DrawingModeManager
    isDrawingMode, bodyDrawnMode, buttonIcon, iconText, iconDrawn, originalIcons,
    interactionBlocker, keyBlocker, submitBlocker, contextMenuBlocker,
    \* document: the capture-phase listeners, localStorage['drawingMode']
    docListeners, storage,
    \* the event last dispatched, as it leaves the document's capture phase
    evt,
    \* history: blockInteractions ran while its handlers were still installed;
    \* the last calls made on the DrawingModeManager from outside (newest last)
    doubleEnabled, calls,
    \* window: innerWidth, innerHeight
    innerWidth, innerHeight,
    \* the window elements: class 'active', style.left/top (set or ''), style.zIndex
    active, positioned, left, top, styleZ,
    \* WindowManager
    windows, currentZIndex, isDragging, activeWindow,
    dragStartX, dragStartY, windowStartX, windowStartY,
    \* document: pointermove/pointerup/pointercancel listeners of a drag
    dragListeners,
    \* pointer-down listeners on the illustration
    drawnListeners,
    \* history: the window of the last bringToFront; the last event handled was a
    \* pointer-move of the current drag session
    lastFront, lastWasMove,
    \* history: the windows brought to front so far, the latest last, each once
    frontOrder,
    \* the window elements: style.transition is 'none'; the pending setTimeout
    \* callbacks of stopDrag, oldest first, each with the window whose drag set it
    transitionNone, timers,
    \* history: the last WindowManager method called from outside, with its window
    wmCall,
    \* the camera: the frame drawn on the canvas, the locals of applySketchFilter
    \* for each interior pixel and the image data it puts back
    frame, sketch, output,
    \* the ids of the elements the document lacks
    missing,
    \* DesktopApps: currentStream and animationFrameId (0 for null)
    currentStream, animationFrameId,
    \* the camera: the streams whose tracks are live, the requestAnimationFrame
    \* callbacks still pending, video.srcObject (0 for null), video.paused, the
    \* pixels on the camera canvas, the startWebcam calls that have not returned
    liveStreams, pendingFrames, videoSrc, videoPaused, canvas, webcamCalls,
    \* the alert() dialogs shown so far, oldest first
    alertLog,
    \* DesktopApps: drawings; the bitmap of this.canvas; the
    \* items in the gallery grid
    drawings, notepadCanvas, galleryItems,
    \* history: a localStorage.setItem has thrown since the page was loaded
    writeFailed,
    \* the window elements: style.display is 'none', style.opacity is '0'; the
    \* pending setTimeout callbacks of the close and minimize controls, oldest
    \* first, each with its window
    displayNone, faded, closeTimers,
    \* history: showWindow has run for the window since the last click on one of
    \* its controls, and found it without display 'none'
    shown,
    \* the browser: the tabs in the document, the pending setTimeout callbacks of
    \* the tab-close buttons, oldest first, each with its tab; the tab with class
    \* 'active'
    tabsInDom, tabTimers, activeTab,
    \* the intro: how far fadeOutIntro has come; isIntroActive; the cloud cursor is
    \* in the document and where; the mousemove listener is registered
    introPhase, isIntroActive, cursorInDom, cursorAt, mouseMoveHandler,
    \* the intro: trailClouds; the trail clouds in the document; the clouds whose
    \* expiry timeout is pending, oldest first; the trail clouds created so far
    \* (a cloud is named by its number)
    trailClouds, domClouds, cloudTimers, spawned

freezeVars == <<isDrawingMode, bodyDrawnMode, buttonIcon, iconText, iconDrawn,
                originalIcons, interactionBlocker, keyBlocker, submitBlocker,
                contextMenuBlocker, docListeners, storage, doubleEnabled>>
blockerVars == <<interactionBlocker, keyBlocker, submitBlocker, contextMenuBlocker,
                 docListeners, doubleEnabled>>
iconVars == <<iconText, iconDrawn, originalIcons>>
viewVars == <<innerWidth, innerHeight>>
posVars == <<positioned, left, top>>
zVars == <<styleZ, windows, currentZIndex, lastFront, frontOrder>>
dragVars == <<isDragging, activeWindow, dragStartX, dragStartY, windowStartX,
              windowStartY, dragListeners, lastWasMove>>
histVars == <<evt, calls>>
transitionVars == <<transitionNone, timers>>
cameraVars == <<frame, sketch, output>>
streamVars == <<currentStream, animationFrameId, liveStreams, pendingFrames, videoSrc,
                videoPaused, canvas, webcamCalls>>
notesVars == <<drawings, notepadCanvas, galleryItems>>
controlVars == <<displayNone, faded, closeTimers, shown>>
tabVars == <<tabsInDom, tabTimers, activeTab>>
introVars == <<introPhase, isIntroActive, cursorInDom, cursorAt, mouseMoveHandler,
               trailClouds, domClouds, cloudTimers, spawned>>
appVars == <<missing, streamVars, alertLog, notesVars, writeFailed, controlVars, tabVars,
             introVars>>
otherVars == <<transitionVars, wmCall, cameraVars, appVars>>
vars == <<freezeVars, histVars, viewVars, active, posVars, zVars, dragVars, drawnListeners,
          otherVars>>

\* ====================================================== DrawingModeManager

ClickFamily == {"click", "dblclick", "mousedown", "mouseup"}
KeyFamily == {"keydown", "keypress", "keyup"}

\* what blockInteractions registers: event type -> which handler
BlockedTypes ==
    [ click |-> "interaction", dblclick |-> "interaction", mousedown |-> "interaction",
      mouseup |-> "interaction", keydown |-> "key", keypress |-> "key", keyup |-> "key",
      submit |-> "submit", contextmenu |-> "contextmenu" ]

\* the listeners one blockInteractions call adds, for its closures of generation g
ListenersOf(g) == { [type |-> t, kind |-> BlockedTypes[t], fn |-> g] : t \in DOMAIN BlockedTypes }

\* a new function object: an identity no registered listener and no field holds
NewClosure ==
    LET used == { l.fn : l \in docListeners }
                \cup {interactionBlocker, keyBlocker, submitBlocker, contextMenuBlocker}
    IN  CHOOSE g \in 1..(MaxClosures + 1) : g \notin used /\ \A h \in 1..(g - 1) : h \in used

\* the elements interactionBlocker lets through
AllowList == {"drawingModeToggle", "drawnComputerWindow", "cameraWindow", "notepadWindow",
              "galleryWindow", "cameraIcon", "notepadIcon", "galleryIcon"}

InAllowList(target) == \E id \in AllowList : Closest(target, id)

\* (e.metaKey || e.ctrlKey) && e.key === 'd'
IsToggleShortcut(e) == (e.metaKey \/ e.ctrlKey) /\ e.key = "d"

NoEffect == [defaultPrevented |-> FALSE, propagationStopped |-> FALSE, immediateStopped |-> FALSE]

\* what each interceptor does to an event e = [type, target, key, ctrlKey, metaKey]
\* a variant that prevents the default action but lets the event travel on
InteractionBlockerEffectPropagating(e) ==
    IF InAllowList(e.target) THEN NoEffect
    ELSE [defaultPrevented |-> TRUE, propagationStopped |-> FALSE, immediateStopped |-> FALSE]

InteractionBlockerEffect(e) ==
    IF InAllowList(e.target) THEN NoEffect
    ELSE [defaultPrevented |-> TRUE, propagationStopped |-> TRUE, immediateStopped |-> TRUE]

\* a variant without the early return for the toggle shortcut
KeyBlockerEffectNoShortcut(e) ==
    IF \/ TagName(e.target) = "INPUT"
       \/ TagName(e.target) = "TEXTAREA"
       \/ IsContentEditable(e.target)
    THEN [defaultPrevented |-> TRUE, propagationStopped |-> TRUE, immediateStopped |-> FALSE]
    ELSE NoEffect

KeyBlockerEffect(e) ==
    IF IsToggleShortcut(e) THEN NoEffect
    ELSE IF \/ TagName(e.target) = "INPUT"
            \/ TagName(e.target) = "TEXTAREA"
            \/ IsContentEditable(e.target)
         THEN [defaultPrevented |-> TRUE, propagationStopped |-> TRUE, immediateStopped |-> FALSE]
         ELSE NoEffect

\* a variant that prevents the submission but lets the event travel on
SubmitBlockerEffectNoStop(e) ==
    [defaultPrevented |-> TRUE, propagationStopped |-> FALSE, immediateStopped |-> FALSE]

SubmitBlockerEffect(e) ==
    [defaultPrevented |-> TRUE, propagationStopped |-> TRUE, immediateStopped |-> FALSE]

ContextMenuBlockerEffect(e) ==
    IF ~Closest(e.target, "drawingModeToggle")
    THEN [defaultPrevented |-> TRUE, propagationStopped |-> FALSE, immediateStopped |-> FALSE]
    ELSE NoEffect

HandlerEffect(kind, e) ==
    CASE kind = "interaction" -> InteractionBlockerEffect(e)
      [] kind = "key" -> KeyBlockerEffect(e)
      [] kind = "submit" -> SubmitBlockerEffect(e)
      [] kind = "contextmenu" -> ContextMenuBlockerEffect(e)

\* The document's capture phase: every capture listener registered for e.type runs.
\* (All listeners of one type are closures of the same handler, so the flags a later
\* listener would add after a stopImmediatePropagation are the flags already set.)
CaptureEffect(e) ==
    LET ls == { l \in docListeners : l.type = e.type }
    IN  [defaultPrevented   |-> \E l \in ls : HandlerEffect(l.kind, e).defaultPrevented,
         propagationStopped |-> \E l \in ls : HandlerEffect(l.kind, e).propagationStopped,
         immediateStopped   |-> \E l \in ls : HandlerEffect(l.kind, e).immediateStopped]

\* the event reaches the listeners below the document
Propagates(e) == ~CaptureEffect(e).propagationStopped

\* ------------------------------------------------------------ icon swapping

\* iconImage.textContent is "emoji" or "empty"; originalIcons[id] is "absent" when unset
SwapToDrawnIcons ==
    /\ originalIcons' = [i \in IconIds |-> iconText[i]]
    /\ iconText' = [i \in IconIds |-> "empty"]
    /\ iconDrawn' = [i \in IconIds |-> TRUE]

\* a restoreOriginalIcons that forgets the stored emoji without writing it back
RestoreOriginalIconsForgets ==
    /\ iconDrawn' = [i \in IconIds |-> IF originalIcons[i] # "absent" THEN FALSE ELSE iconDrawn[i]]
    /\ UNCHANGED iconText
    /\ originalIcons' = [i \in IconIds |-> "absent"]

RestoreOriginalIcons ==
    /\ iconDrawn' = [i \in IconIds |-> IF originalIcons[i] # "absent" THEN FALSE ELSE iconDrawn[i]]
    /\ iconText' = [i \in IconIds |-> IF originalIcons[i] # "absent" THEN originalIcons[i]
                                      ELSE iconText[i]]
    /\ originalIcons' = [i \in IconIds |-> "absent"]

\* ------------------------------------------------------ interaction blocking

\* a variant that registers the key handler without keeping a reference to it
BlockInteractionsDropsKeyBlocker ==
    LET g == NewClosure
    IN  /\ g <= MaxClosures
        /\ interactionBlocker' = g
        /\ keyBlocker' = 0
        /\ submitBlocker' = g
        /\ contextMenuBlocker' = g
        /\ docListeners' = docListeners \cup ListenersOf(g)
        /\ doubleEnabled' = (doubleEnabled \/ interactionBlocker # 0 \/ keyBlocker # 0
                             \/ submitBlocker # 0 \/ contextMenuBlocker # 0)

BlockInteractions ==
    LET g == NewClosure
    IN  /\ g <= MaxClosures
        /\ interactionBlocker' = g
        /\ keyBlocker' = g
        /\ submitBlocker' = g
        /\ contextMenuBlocker' = g
        /\ docListeners' = docListeners \cup ListenersOf(g)
        /\ doubleEnabled' = (doubleEnabled \/ interactionBlocker # 0 \/ keyBlocker # 0
                             \/ submitBlocker # 0 \/ contextMenuBlocker # 0)

\* the listeners removeEventListener(type, field, true) removes, for the types given
Removal(types, kind, field) ==
    IF field = 0 THEN {} ELSE { [type |-> t, kind |-> kind, fn |-> field] : t \in types }

\* a variant that forgets the context-menu handler
UnblockInteractionsKeepsContextMenu ==
    /\ docListeners' = docListeners
            \ ( Removal(ClickFamily, "interaction", interactionBlocker)
                \cup Removal(KeyFamily, "key", keyBlocker)
                \cup Removal({"submit"}, "submit", submitBlocker) )
    /\ interactionBlocker' = 0
    /\ keyBlocker' = 0
    /\ submitBlocker' = 0
    /\ contextMenuBlocker' = 0
    /\ UNCHANGED doubleEnabled

UnblockInteractions ==
    /\ docListeners' = docListeners
            \ ( Removal(ClickFamily, "interaction", interactionBlocker)
                \cup Removal(KeyFamily, "key", keyBlocker)
                \cup Removal({"submit"}, "submit", submitBlocker)
                \cup Removal({"contextmenu"}, "contextmenu", contextMenuBlocker) )
    /\ interactionBlocker' = 0
    /\ keyBlocker' = 0
    /\ submitBlocker' = 0
    /\ contextMenuBlocker' = 0
    /\ UNCHANGED doubleEnabled

\* ------------------------------------------------------------- preferences

\* a savePreference that writes the mode as it was before the toggle
SavePreferenceStale == storage' = IF isDrawingMode THEN "enabled" ELSE "disabled"

\* savePreference() when localStorage.setItem returns
SavePreference == storage' = IF isDrawingMode' THEN "enabled" ELSE "disabled"

\* savePreference() when localStorage.setItem throws: the catch only logs
SavePreferenceFails == UNCHANGED storage

\* ================================================================ geometry

\* the viewport sizes (innerWidth x innerHeight) the page is loaded in and resized to
Viewports == { [w |-> 1200, h |-> 800], [w |-> 800, h |-> 500], [w |-> 400, h |-> 40] }

\* the pointer positions (clientX, clientY) the pointer events carry
Pointers == { [x |-> 0, y |-> 0], [x |-> 600, y |-> 400] }

\* the rendered size of each element when it is displayed
Width(w) ==
    CASE w = "browserWindow" -> 900
      [] w = "cameraWindow" -> 700
      [] w = "notepadWindow" -> 600
      [] w = "galleryWindow" -> 500
      [] w = DrawnComputer -> imgWidth

Height(w) ==
    CASE w = "browserWindow" -> 600
      [] w = "cameraWindow" -> 600
      [] w = "notepadWindow" -> 500
      [] w = "galleryWindow" -> 400
      [] w = DrawnComputer -> imgHeight

\* The element is rendered: an app window when it carries class 'active', the
\* browser window always, the illustration while the body is in drawn mode; and
\* none of the windows while its style.display is 'none'.
Displayed(w, act, drawn) ==
    CASE w \in AppWindows -> act[w] /\ ~displayNone[w]
      [] w = "browserWindow" -> ~displayNone[w]
      [] w = DrawnComputer -> drawn

\* getBoundingClientRect(): zeros for an element that is not rendered; the stylesheet
\* centres an element whose style.left/top are '' (transform: translate(-50%, -50%)).
Rect(w, disp, vw, vh) ==
    IF ~disp THEN [left |-> 0, top |-> 0, width |-> 0, height |-> 0]
    ELSE [left   |-> IF positioned[w] THEN left[w] ELSE (vw - Width(w)) \div 2,
          top    |-> IF positioned[w] THEN top[w] ELSE (vh - Height(w)) \div 2,
          width  |-> Width(w),
          height |-> Height(w)]

RectNow(w) == Rect(w, Displayed(w, active, bodyDrawnMode), innerWidth, innerHeight)

\* centerWindowNow: the centred position of a rect in a viewport
CenterX(r, vw) == (vw - r.width) \div 2
CenterY(r, vh) == (vh - r.height) \div 2

\* ------------------------------------------------------------ illustration

\* showDrawnComputer, with makeDrawnComputerDraggable adding one more listener
ShowDrawnComputer ==
    /\ drawnListeners < MaxDrawnListeners
    /\ left' = [left EXCEPT ![DrawnComputer] = Max(0, (innerWidth - imgWidth) \div 2)]
    /\ top' = [top EXCEPT ![DrawnComputer] = Max(0, (innerHeight - imgHeight) \div 2)]
    /\ positioned' = [positioned EXCEPT ![DrawnComputer] = TRUE]
    /\ drawnListeners' = drawnListeners + 1

\* ------------------------------------------------------------------ toggle

\* an enableDrawingMode that leaves the body's class list alone
EnableDrawingModeNoClass ==
    /\ UNCHANGED bodyDrawnMode
    /\ buttonIcon' = "computer"
    /\ SwapToDrawnIcons
    /\ ShowDrawnComputer
    /\ BlockInteractions

\* enableDrawingMode(); constrains the freeze state but isDrawingMode and storage,
\* posVars and drawnListeners
EnableDrawingMode ==
    /\ bodyDrawnMode' = TRUE
    /\ buttonIcon' = "computer"
    /\ SwapToDrawnIcons
    /\ ShowDrawnComputer
    /\ BlockInteractions

DisableDrawingMode ==
    /\ bodyDrawnMode' = FALSE
    /\ buttonIcon' = "pencil"
    /\ RestoreOriginalIcons
    /\ UnblockInteractions
    /\ UNCHANGED <<posVars, drawnListeners>>

\* toggle(): constrains freezeVars, posVars and drawnListeners
Toggle ==
    /\ isDrawingMode' = ~isDrawingMode
    /\ IF ~isDrawingMode THEN EnableDrawingMode ELSE DisableDrawingMode
    /\ SavePreference

\* toggle() when the write of the preference throws
ToggleSaveFails ==
    /\ isDrawingMode' = ~isDrawingMode
    /\ IF ~isDrawingMode THEN EnableDrawingMode ELSE DisableDrawingMode
    /\ SavePreferenceFails

\* ============================================================ WindowManager

HeaderOf ==
    [ browserWindow |-> "browserHeader", cameraWindow |-> "cameraHeader",
      notepadWindow |-> "notepadHeader", galleryWindow |-> "galleryHeader" ]

\* a counter that is not incremented
NextZIndexStuck(z) == z

\* this.currentZIndex++
NextZIndex(z) == z + 1

RECURSIVE Raise(_, _)
Raise(z, k) == IF k = 0 THEN z ELSE Raise(NextZIndex(z), k - 1)

\* bringToFront(w), called k times in a row; constrains zVars
BringToFront(w, k) ==
    /\ currentZIndex + k <= baseZIndex + MaxBring
    /\ currentZIndex' = Raise(currentZIndex, k)
    /\ styleZ' = [styleZ EXCEPT ![w] = Raise(currentZIndex, k)]
    /\ windows' = IF w \in DOMAIN windows
                  THEN [windows EXCEPT ![w] = Raise(currentZIndex, k)]
                  ELSE windows
    /\ lastFront' = w
    /\ frontOrder' = Append(SelectSeq(frontOrder, LAMBDA v : v # w), w)

\* centerWindowNow(w) for a rect r in a vw x vh viewport; constrains posVars
CenterWindowNow(w, r, vw, vh) ==
    /\ left' = [left EXCEPT ![w] = CenterX(r, vw)]
    /\ top' = [top EXCEPT ![w] = CenterY(r, vh)]
    /\ positioned' = [positioned EXCEPT ![w] = TRUE]

\* a showWindow that leaves the stacking alone
ShowWindowNoFront(w) ==
    /\ active' = [active EXCEPT ![w] = TRUE]
    /\ CenterWindowNow(w, Rect(w, Displayed(w, active', bodyDrawnMode), innerWidth, innerHeight),
                       innerWidth, innerHeight)
    /\ UNCHANGED zVars

\* showWindow(w); constrains active, posVars and zVars
ShowWindow(w) ==
    /\ active' = [active EXCEPT ![w] = TRUE]
    /\ CenterWindowNow(w, Rect(w, Displayed(w, active', bodyDrawnMode), innerWidth, innerHeight),
                       innerWidth, innerHeight)
    /\ BringToFront(w, 1)

\* a hideWindow that also drops the inline position
HideWindowClearsPosition(w) ==
    /\ active' = [active EXCEPT ![w] = FALSE]
    /\ positioned' = [positioned EXCEPT ![w] = FALSE]
    /\ UNCHANGED <<left, top, zVars>>

\* hideWindow(w); constrains active, posVars and zVars
HideWindow(w) ==
    /\ active' = [active EXCEPT ![w] = FALSE]
    /\ UNCHANGED <<posVars, zVars>>

\* setupWindow(w) for an element whose style.left/top are ''; constrains posVars
\* and windows
SetupWindow(w) ==
    LET disp == Displayed(w, active, bodyDrawnMode)
        r == IF disp THEN [width |-> Width(w), height |-> Height(w)]
             ELSE [width |-> 0, height |-> 0]
    IN  /\ IF active[w] \/ disp
           THEN CenterWindowNow(w, r, innerWidth, innerHeight)
           ELSE /\ positioned' = [positioned EXCEPT ![w] = FALSE]
                /\ left' = [left EXCEPT ![w] = 0]
                /\ top' = [top EXCEPT ![w] = 0]
        /\ windows' = [v \in DOMAIN windows \cup {w} |->
                            IF v = w THEN baseZIndex ELSE windows[v]]

\* resetWindowPosition(w); constrains posVars and zVars
ResetWindowPosition(w) ==
    /\ SetupWindow(w)
    /\ UNCHANGED <<styleZ, currentZIndex, lastFront, frontOrder>>

\* --------------------------------------------- the methods, called by an id

\* the ids document.getElementById can find: the elements of the page, less the
\* ones this document lacks
DocumentIds == (Elements \cup {"cameraVideo", "notepadCanvas", "galleryGrid"}) \ missing

\* a bringToFront that counts before it tests its argument
BringToFrontElementCounts(el) ==
    IF el \notin DocumentIds
    THEN /\ currentZIndex + 1 <= baseZIndex + MaxBring
         /\ currentZIndex' = NextZIndex(currentZIndex)
         /\ UNCHANGED <<styleZ, windows, lastFront, frontOrder>>
    ELSE BringToFront(el, 1)

\* bringToFront(document.getElementById(el)); constrains zVars
BringToFrontElement(el) ==
    IF el \notin DocumentIds THEN UNCHANGED zVars ELSE BringToFront(el, 1)

\* showWindow(id) of the window manager alone; constrains active, posVars and zVars
ShowWindowById(id) ==
    IF id \notin DocumentIds THEN UNCHANGED <<active, posVars, zVars>> ELSE ShowWindow(id)

\* hideWindow(id) of the window manager alone; constrains active, posVars and zVars
HideWindowById(id) ==
    IF id \notin DocumentIds THEN UNCHANGED <<active, posVars, zVars>> ELSE HideWindow(id)

\* centerWindow(id); constrains posVars
CenterWindowById(id) ==
    IF id \notin DocumentIds THEN UNCHANGED posVars
    ELSE CenterWindowNow(id, RectNow(id), innerWidth, innerHeight)

\* resetWindowPosition(id); constrains posVars and zVars
ResetWindowPositionById(id) ==
    IF id \notin DocumentIds THEN UNCHANGED <<posVars, zVars>> ELSE ResetWindowPosition(id)

\* a test that forgets the bottom edge
OutOfBoundsNoBottom(r, vw, vh) ==
    \/ r.left < -ResizeTolerance
    \/ r.top < 0
    \/ r.left + r.width > vw + ResizeTolerance

\* handleResize's test on a rect in the new viewport
OutOfBounds(r, vw, vh) ==
    \/ r.left < -ResizeTolerance
    \/ r.top < 0
    \/ r.left + r.width > vw + ResizeTolerance
    \/ r.top + r.height > vh + ResizeTolerance

\* the windows handleResize recentres in a vw x vh viewport
Recentred(vw, vh) ==
    { w \in DOMAIN windows :
        /\ active[w]
        /\ OutOfBounds(Rect(w, Displayed(w, active, bodyDrawnMode), vw, vh), vw, vh) }

\* the resize event and handleResize; constrains viewVars and posVars
HandleResize(vw, vh) ==
    LET rs == Recentred(vw, vh)
        r(w) == Rect(w, Displayed(w, active, bodyDrawnMode), vw, vh)
    IN  /\ innerWidth' = vw
        /\ innerHeight' = vh
        /\ left' = [w \in AllWindows |-> IF w \in rs THEN CenterX(r(w), vw) ELSE left[w]]
        /\ top' = [w \in AllWindows |-> IF w \in rs THEN CenterY(r(w), vh) ELSE top[w]]
        /\ positioned' = [w \in AllWindows |-> positioned[w] \/ w \in rs]

\* the horizontal constraint without its lower bound
ClampXNoMin(newX, windowWidth, vw) == Min(newX, vw - DragKeepX)

\* handleDrag's constraints
ClampX(newX, windowWidth, vw) == Max(-windowWidth + DragKeepX, Min(newX, vw - DragKeepX))
ClampY(newY, vh) == Max(0, Min(newY, vh - DragKeepY))

\* the document listeners startDrag adds and stopDrag removes; handleDrag and stopDrag
\* are fields of the WindowManager, the same function objects in every session
DragListeners ==
    { [type |-> "pointermove", fn |-> "handleDrag"],
      [type |-> "pointerup", fn |-> "stopDrag"],
      [type |-> "pointercancel", fn |-> "stopDrag"] }

\* startDrag(w, e), run by each of the k pointer-down listeners; constrains
\* dragVars, posVars and zVars
StartDrag(w, x, y, k) ==
    LET r == RectNow(w)
    IN  /\ isDragging' = TRUE
        /\ activeWindow' = w
        /\ dragStartX' = x
        /\ dragStartY' = y
        /\ windowStartX' = r.left
        /\ windowStartY' = r.top
        /\ left' = [left EXCEPT ![w] = r.left]
        /\ top' = [top EXCEPT ![w] = r.top]
        /\ positioned' = [positioned EXCEPT ![w] = TRUE]
        /\ BringToFront(w, k)
        /\ dragListeners' = dragListeners \cup DragListeners
        /\ lastWasMove' = FALSE

\* a handleDrag that adds the pointer's travel to the window's current position
HandleDragIncremental(x, y) ==
    /\ isDragging
    /\ activeWindow # ""
    /\ LET w == activeWindow
           r == RectNow(w)
           newX == r.left + (x - dragStartX)
           newY == r.top + (y - dragStartY)
       IN  /\ left' = [left EXCEPT ![w] = ClampX(newX, r.width, innerWidth)]
           /\ top' = [top EXCEPT ![w] = ClampY(newY, innerHeight)]
           /\ positioned' = [positioned EXCEPT ![w] = TRUE]
    /\ lastWasMove' = TRUE
    /\ UNCHANGED <<isDragging, activeWindow, dragStartX, dragStartY, windowStartX,
                   windowStartY, dragListeners>>

\* handleDrag(e); constrains dragVars and posVars
HandleDrag(x, y) ==
    /\ isDragging
    /\ activeWindow # ""
    /\ LET w == activeWindow
           r == RectNow(w)
           newX == windowStartX + (x - dragStartX)
           newY == windowStartY + (y - dragStartY)
       IN  /\ left' = [left EXCEPT ![w] = ClampX(newX, r.width, innerWidth)]
           /\ top' = [top EXCEPT ![w] = ClampY(newY, innerHeight)]
           /\ positioned' = [positioned EXCEPT ![w] = TRUE]
    /\ lastWasMove' = TRUE
    /\ UNCHANGED <<isDragging, activeWindow, dragStartX, dragStartY, windowStartX,
                   windowStartY, dragListeners>>

\* a stopDrag that leaves the pointercancel listener behind
StopDragKeepsCancel ==
    /\ isDragging
    /\ isDragging' = FALSE
    /\ activeWindow' = ""
    /\ dragListeners' = dragListeners \ { l \in DragListeners : l.type # "pointercancel" }
    /\ lastWasMove' = FALSE
    /\ UNCHANGED <<dragStartX, dragStartY, windowStartX, windowStartY>>

\* stopDrag(e); constrains dragVars
StopDrag ==
    /\ isDragging
    /\ isDragging' = FALSE
    /\ activeWindow' = ""
    /\ dragListeners' = dragListeners \ DragListeners
    /\ lastWasMove' = FALSE
    /\ UNCHANGED <<dragStartX, dragStartY, windowStartX, windowStartY>>

\* ==================================================== camera: sketch filter

\* canvas.width and canvas.height of the frames filtered here
FrameWidth == 3
FrameHeight == 3

\* the pixels of a frame, and those the filter's loops visit
Pixels == { <<x, y>> : x \in 0..(FrameWidth - 1), y \in 0..(FrameHeight - 1) }
Interior == { <<x, y>> : x \in 1..(FrameWidth - 2), y \in 1..(FrameHeight - 2) }

\* The colours of the video frames: a frame takes its colours from one of two
\* palettes.  Luminances are kept in fortieths, which is exact for these colours:
\* 299 r + 587 g + 114 b is a multiple of 25 for each of them.
Palettes ==
    { { [r |-> 0, g |-> 0, b |-> 0], [r |-> 15, g |-> 15, b |-> 15],
        [r |-> 255, g |-> 255, b |-> 255] },
      { [r |-> 0, g |-> 0, b |-> 0], [r |-> 250, g |-> 0, b |-> 0],
        [r |-> 255, g |-> 255, b |-> 255] } }

\* imageData.data of a frame with the given pixel colours, alpha 255
ImageData(pix) ==
    [ i \in 0..(FrameWidth * FrameHeight * 4 - 1) |->
        LET c == pix[<<(i \div 4) % FrameWidth, (i \div 4) \div FrameWidth>>]
        IN  CASE i % 4 = 0 -> c.r
              [] i % 4 = 1 -> c.g
              [] i % 4 = 2 -> c.b
              [] OTHER -> 255 ]

\* ctx.createImageData(width, height): transparent black
BlankImage == [ i \in 0..(FrameWidth * FrameHeight * 4 - 1) |-> 0 ]

\* data[i] * 0.299 + data[i + 1] * 0.587 + data[i + 2] * 0.114, in fortieths
Gray(data, i) == (299 * data[i] + 587 * data[i + 1] + 114 * data[i + 2]) \div 25

\* the least n in lo..hi with n * n >= s
RECURSIVE SqrtSearch(_, _, _)
SqrtSearch(s, lo, hi) ==
    IF lo >= hi THEN lo
    ELSE LET mid == (lo + hi) \div 2
         IN  IF mid * mid >= s THEN SqrtSearch(s, lo, mid) ELSE SqrtSearch(s, mid + 1, hi)

\* Math.sqrt rounded up to a whole number
CeilSqrt(s) == SqrtSearch(s, 0, 30000)

\* const threshold = 30
threshold == 30

\* the brightening of the pixels that are not edges
paperLift == 30

\* a threshold compared with >= instead of >
IsEdgeInclusive(magnitudeSq) == magnitudeSq >= (40 * threshold) * (40 * threshold)

\* magnitude > threshold, on the square of the magnitude (in fortieths)
IsEdge(magnitudeSq) == magnitudeSq > (40 * threshold) * (40 * threshold)

\* a brightening that is not clamped
FlatValueUnclamped(gray) == gray + 40 * paperLift

\* Math.min(255, gray + 30), in fortieths
FlatValue(gray) == Min(40 * 255, gray + 40 * paperLift)

\* Math.max(0, 255 - magnitude), in fortieths and rounded down
EdgeValue(magnitudeSq) == Max(0, 40 * 255 - CeilSqrt(magnitudeSq))

\* The byte a Uint8ClampedArray stores for a value of v fortieths (whole tells that v
\* is the value itself, not its rounding down): the nearest integer, ties to even.
ToUint8Clamped(v, whole) ==
    LET q == v \div 40
        r == v % 40
    IN  IF v <= 0 THEN 0
        ELSE IF q >= 255 THEN 255
        ELSE IF r > 20 \/ (r = 20 /\ ~whole) THEN q + 1
        ELSE IF r < 20 THEN q
        ELSE IF q % 2 = 0 THEN q ELSE q + 1

\* the locals of one turn of the filter's loops, for the pixel (x, y)
SketchPixel(data, x, y) ==
    LET idx == (y * FrameWidth + x) * 4
        tl == ((y - 1) * FrameWidth + (x - 1)) * 4
        tr == ((y - 1) * FrameWidth + (x + 1)) * 4
        bl == ((y + 1) * FrameWidth + (x - 1)) * 4
        br == ((y + 1) * FrameWidth + (x + 1)) * 4
        gray == Gray(data, idx)
        gx == (Gray(data, tr) + Gray(data, br)) - (Gray(data, tl) + Gray(data, bl))
        gy == (Gray(data, bl) + Gray(data, br)) - (Gray(data, tl) + Gray(data, tr))
        magnitudeSq == gx * gx + gy * gy
        isEdge == IsEdge(magnitudeSq)
        value == IF isEdge THEN EdgeValue(magnitudeSq) ELSE FlatValue(gray)
        whole == ~isEdge \/ CeilSqrt(magnitudeSq) * CeilSqrt(magnitudeSq) = magnitudeSq
    IN  [done |-> TRUE, idx |-> idx, gray |-> gray, gx |-> gx, gy |-> gy,
         magnitudeSq |-> magnitudeSq, isEdge |-> isEdge, value |-> value,
         byte |-> ToUint8Clamped(value, whole)]

\* no turn of the loops has run for the pixel
NoSketch ==
    [done |-> FALSE, idx |-> 0, gray |-> 0, gx |-> 0, gy |-> 0, magnitudeSq |-> 0,
     isEdge |-> FALSE, value |-> 0, byte |-> 0]

\* applySketchFilter on the frame drawn on the canvas; constrains sketch and output
ApplySketchFilter ==
    LET pixel(i) == <<(i \div 4) % FrameWidth, (i \div 4) \div FrameWidth>>
    IN  /\ sketch' = [p \in Interior |-> SketchPixel(frame, p[1], p[2])]
        /\ output' = [ i \in DOMAIN BlankImage |->
                        IF pixel(i) \notin Interior THEN BlankImage[i]
                        ELSE IF i % 4 = 3 THEN 255
                        ELSE sketch'[pixel(i)].byte ]

\* the camera before any frame was filtered
InitCamera(pix) ==
    /\ frame = ImageData(pix)
    /\ sketch = [p \in Interior |-> NoSketch]
    /\ output = BlankImage

\* ===================================================== camera: the session

\* a startWebcam call that has returned, or a slot no call uses
IdleCall == [pc |-> "idle", stream |-> 0, interrupted |-> FALSE]

\* the names getUserMedia rejects with
ErrorNames == {"NotAllowedError", "NotFoundError", "NotReadableError", "OverconstrainedError"}

\* the message startWebcam's catch builds for an error
ErrorMessage(name) ==
    CASE name = "NotAllowedError" -> "allow camera permissions"
      [] name = "NotFoundError" -> "no camera found"
      [] name = "NotReadableError" -> "camera already in use"
      [] OTHER -> "error.message"

\* a MediaStream no field, element or call refers to yet
FreshStreams ==
    { s \in 1..MaxBring :
        /\ s \notin liveStreams \cup {currentStream, videoSrc}
        /\ \A c \in DOMAIN webcamCalls : webcamCalls[c].stream # s }

\* video.ended: the stream the video plays has no live track left
VideoEnded == videoSrc # 0 /\ videoSrc \notin liveStreams

\* pause(), load() and a new srcObject reject the play() promises still pending
InterruptPlays(calls_) ==
    [c \in DOMAIN calls_ |->
        IF calls_[c].pc = "play" THEN [calls_[c] EXCEPT !.interrupted = TRUE] ELSE calls_[c]]

\* cancelAnimationFrame(this.animationFrameId) and the stop of the current stream's
\* tracks, as startWebcam and stopCamera both begin; constrains animationFrameId,
\* pendingFrames, currentStream and liveStreams
StopCapture ==
    /\ pendingFrames' = pendingFrames \ {animationFrameId}
    /\ animationFrameId' = 0
    /\ liveStreams' = liveStreams \ {currentStream}
    /\ currentStream' = 0

\* startWebcam() up to its first await; constrains streamVars
StartWebcam ==
    IF {"cameraVideo", "cameraCanvas"} \cap missing # {}
    THEN UNCHANGED streamVars
    ELSE /\ \E c \in DOMAIN webcamCalls : webcamCalls[c].pc = "idle"
         /\ LET c == CHOOSE d \in DOMAIN webcamCalls :
                        /\ webcamCalls[d].pc = "idle"
                        /\ \A b \in 1..(d - 1) : webcamCalls[b].pc # "idle"
            IN  webcamCalls' = [InterruptPlays(webcamCalls) EXCEPT
                                   ![c] = [pc |-> "delay", stream |-> 0, interrupted |-> FALSE]]
         /\ StopCapture
         /\ videoSrc' = 0
         /\ videoPaused' = TRUE
         /\ UNCHANGED canvas

\* stopCamera(); constrains streamVars
StopCamera ==
    /\ StopCapture
    /\ IF "cameraVideo" \in missing
       THEN UNCHANGED <<videoSrc, videoPaused, webcamCalls>>
       ELSE /\ videoSrc' = 0
            /\ videoPaused' = TRUE
            /\ webcamCalls' = InterruptPlays(webcamCalls)
    /\ canvas' = IF "cameraCanvas" \in missing THEN canvas ELSE BlankImage

\* a renderCameraFrame that does not look at the camera window
RenderCameraFrameNoActiveCheck(pending) ==
    IF videoPaused \/ VideoEnded
    THEN /\ pendingFrames' = pending
         /\ UNCHANGED <<canvas, sketch, output, animationFrameId>>
    ELSE /\ IF bodyDrawnMode
            THEN ApplySketchFilter /\ canvas' = output'
            ELSE canvas' = frame /\ UNCHANGED <<sketch, output>>
         /\ LET f == CHOOSE g \in 1..(MaxBring + 1) :
                        /\ g \notin pending \cup {animationFrameId}
                        /\ \A h \in 1..(g - 1) : h \in pending \cup {animationFrameId}
            IN  /\ animationFrameId' = f
                /\ pendingFrames' = pending \cup {f}

\* renderCameraFrame(video, canvas, ctx), the callbacks in pending staying requested;
\* constrains canvas, sketch, output, animationFrameId and pendingFrames
RenderCameraFrame(pending) ==
    IF videoPaused \/ VideoEnded
    THEN /\ pendingFrames' = pending
         /\ UNCHANGED <<canvas, sketch, output, animationFrameId>>
    ELSE IF "cameraWindow" \in missing \/ ~active["cameraWindow"]
    THEN /\ pendingFrames' = pending
         /\ UNCHANGED <<canvas, sketch, output, animationFrameId>>
    ELSE /\ IF bodyDrawnMode
            THEN ApplySketchFilter /\ canvas' = output'
            ELSE canvas' = frame /\ UNCHANGED <<sketch, output>>
         /\ LET f == CHOOSE g \in 1..(MaxBring + 1) :
                        /\ g \notin pending \cup {animationFrameId}
                        /\ \A h \in 1..(g - 1) : h \in pending \cup {animationFrameId}
            IN  /\ animationFrameId' = f
                /\ pendingFrames' = pending \cup {f}

\* ------------------------------------------------- transitions during a drag

\* startDrag: windowEl.style.transition = 'none'; constrains transitionNone
SuspendTransition(w) == transitionNone' = [transitionNone EXCEPT ![w] = TRUE]

\* stopDrag: setTimeout(..., 50) when a window is being dragged; constrains timers
ScheduleRestore ==
    /\ Len(timers) < MaxTimers
    /\ timers' = IF activeWindow # "" THEN Append(timers, activeWindow) ELSE timers

\* the timeout's callback: the transition of whatever this.activeWindow is now
RestoreTransition ==
    transitionNone' = IF activeWindow # ""
                      THEN [transitionNone EXCEPT ![activeWindow] = FALSE]
                      ELSE transitionNone

\* ============================================================= construction

NoEvent ==
    [type |-> "none", target |-> "body", key |-> "", ctrlKey |-> FALSE, metaKey |-> FALSE,
     frozen |-> FALSE, defaultPrevented |-> FALSE, propagationStopped |-> FALSE,
     immediateStopped |-> FALSE]

\* a loadSavedPreference that adds the class before it reads the preference
LoadSavedPreferenceClassFirst(saved) ==
    /\ storage = saved
    /\ isDrawingMode = (saved = "enabled")
    /\ bodyDrawnMode = (saved \in {"enabled", "throws"})
    /\ buttonIcon = IF saved = "enabled" THEN "computer" ELSE "pencil"
    /\ iconText = [i \in IconIds |-> IF saved = "enabled" THEN "empty" ELSE "emoji"]
    /\ iconDrawn = [i \in IconIds |-> saved = "enabled"]
    /\ originalIcons = [i \in IconIds |-> IF saved = "enabled" THEN "emoji" ELSE "absent"]
    /\ interactionBlocker = (IF saved = "enabled" THEN 1 ELSE 0)
    /\ keyBlocker = (IF saved = "enabled" THEN 1 ELSE 0)
    /\ submitBlocker = (IF saved = "enabled" THEN 1 ELSE 0)
    /\ contextMenuBlocker = (IF saved = "enabled" THEN 1 ELSE 0)
    /\ docListeners = (IF saved = "enabled" THEN ListenersOf(1) ELSE {})
    /\ doubleEnabled = FALSE

\* loadSavedPreference() on a fresh DrawingModeManager; saved is what localStorage
\* holds under 'drawingMode' ("unset" for null), or "throws" when reading it throws
LoadSavedPreference(saved) ==
    /\ storage = saved
    /\ isDrawingMode = (saved = "enabled")
    /\ bodyDrawnMode = (saved = "enabled")
    /\ buttonIcon = IF saved = "enabled" THEN "computer" ELSE "pencil"
    /\ iconText = [i \in IconIds |-> IF saved = "enabled" THEN "empty" ELSE "emoji"]
    /\ iconDrawn = [i \in IconIds |-> saved = "enabled"]
    /\ originalIcons = [i \in IconIds |-> IF saved = "enabled" THEN "emoji" ELSE "absent"]
    /\ interactionBlocker = (IF saved = "enabled" THEN 1 ELSE 0)
    /\ keyBlocker = (IF saved = "enabled" THEN 1 ELSE 0)
    /\ submitBlocker = (IF saved = "enabled" THEN 1 ELSE 0)
    /\ contextMenuBlocker = (IF saved = "enabled" THEN 1 ELSE 0)
    /\ docListeners = (IF saved = "enabled" THEN ListenersOf(1) ELSE {})
    /\ doubleEnabled = FALSE

\* no WindowManager method has been called from outside yet
NoCall == [op |-> "none", id |-> "", moved |-> {}]

\* new WindowManager(), initializeWindows() and the intro's centring of the browser
\* window, in a vw x vh viewport.  The browser window is rendered without carrying
\* class 'active'; the app windows start hidden.
InitializeWindows(vw, vh) ==
    /\ innerWidth = vw
    /\ innerHeight = vh
    /\ active = [w \in AllWindows |-> FALSE]
    /\ positioned = [w \in AllWindows |-> w = "browserWindow"]
    /\ left = [w \in AllWindows |-> IF w = "browserWindow" THEN (vw - Width(w)) \div 2 ELSE 0]
    /\ top = [w \in AllWindows |-> IF w = "browserWindow" THEN (vh - Height(w)) \div 2 ELSE 0]
    /\ styleZ = [w \in AllWindows |-> 0]
    /\ windows = [w \in WindowIds |-> baseZIndex]
    /\ currentZIndex = baseZIndex
    /\ isDragging = FALSE
    /\ activeWindow = ""
    /\ dragStartX = 0
    /\ dragStartY = 0
    /\ windowStartX = 0
    /\ windowStartY = 0
    /\ dragListeners = {}
    /\ drawnListeners = 0
    /\ lastFront = ""
    /\ frontOrder = <<>>
    /\ lastWasMove = FALSE
    /\ transitionNone = [w \in AllWindows |-> FALSE]
    /\ timers = <<>>
    /\ wmCall = NoCall

\* new DesktopApps() in a document that lacks the elements m; no preference was
\* written yet
\* this.canvas when it is null
NoCanvas == [element |-> FALSE, sized |-> FALSE, strokes |-> 0]

\* the tabs setupBrowser knows a URL for
TabNames == {"home", "about", "portfolio"}

\* the browser window as the markup gives it
InitTabs ==
    /\ tabsInDom = TabNames
    /\ tabTimers = <<>>
    /\ activeTab = "home"

\* intro.js after the intro: fadeOutIntro and cleanupCloudCursor have run on an
\* intro during which the mouse did not move
IntroOver ==
    /\ introPhase = "centred"
    /\ isIntroActive = FALSE
    /\ cursorInDom = FALSE
    /\ cursorAt = [x |-> 0, y |-> 0]
    /\ mouseMoveHandler = FALSE
    /\ trailClouds = <<>>
    /\ domClouds = {}
    /\ cloudTimers = <<>>
    /\ spawned = 0

\* new DesktopApps() and the window controls, in a document that lacks the ids in m
InitDesktopApps(m) ==
    /\ missing = m
    /\ currentStream = 0
    /\ animationFrameId = 0
    /\ liveStreams = {}
    /\ pendingFrames = {}
    /\ videoSrc = 0
    /\ videoPaused = TRUE
    /\ canvas = BlankImage
    /\ webcamCalls = [c \in 1..MaxCalls |-> IdleCall]
    /\ alertLog = <<>>
    /\ drawings = <<>>
    /\ notepadCanvas = NoCanvas
    /\ galleryItems = <<>>
    /\ writeFailed = FALSE
    /\ displayNone = [w \in WindowIds |-> FALSE]
    /\ faded = [w \in WindowIds |-> FALSE]
    /\ closeTimers = <<>>
    /\ shown = [w \in WindowIds |-> FALSE]

InitApps(m) ==
    /\ InitTabs
    /\ IntroOver
    /\ InitDesktopApps(m)

\* the page after its scripts have run, the camera left aside
InitPage ==
    /\ \E saved \in {"unset", "enabled", "disabled"} : LoadSavedPreference(saved)
    /\ \E vp \in Viewports : InitializeWindows(vp.w, vp.h)
    /\ evt = NoEvent
    /\ calls = <<>>

\* the complete document, with a black frame in front of the camera
Init ==
    /\ InitPage
    /\ InitCamera([p \in Pixels |-> [r |-> 0, g |-> 0, b |-> 0]])
    /\ InitApps({})

\* ============================================ Spec: pointer, resize, windows

\* a pointer-down event as the document's capture phase sees it
PointerDownEvent(target) ==
    [type |-> "pointerdown", target |-> target, key |-> "", ctrlKey |-> FALSE, metaKey |-> FALSE]

\* pointer-down on a window's header (not on a control): the header's listener
\* starts the drag and stops the propagation to the window's own listener
PointerDownHeader(w, x, y) ==
    /\ ~isDragging
    /\ Displayed(w, active, bodyDrawnMode)
    /\ IF Propagates(PointerDownEvent(HeaderOf[w]))
       THEN StartDrag(w, x, y, 1)
       ELSE UNCHANGED <<dragVars, posVars, zVars>>
    /\ UNCHANGED <<otherVars, freezeVars, histVars, viewVars, active, drawnListeners>>

\* pointer-down elsewhere on a window (a control of the header included): the
\* window's listener brings it to front
PointerDownWindow(w) ==
    /\ ~isDragging
    /\ Displayed(w, active, bodyDrawnMode)
    /\ IF Propagates(PointerDownEvent(w))
       THEN BringToFront(w, 1)
       ELSE UNCHANGED zVars
    /\ lastWasMove' = FALSE
    /\ UNCHANGED <<otherVars, freezeVars, histVars, viewVars, active, posVars, isDragging, activeWindow,
                   dragStartX, dragStartY, windowStartX, windowStartY, dragListeners,
                   drawnListeners>>

\* pointer-move while the drag's document listeners are registered
PointerMove(x, y) ==
    /\ \E l \in dragListeners : l.type = "pointermove"
    /\ HandleDrag(x, y)
    /\ UNCHANGED <<otherVars, freezeVars, histVars, viewVars, active, zVars, drawnListeners>>

\* pointer-up or pointer-cancel while the drag's document listeners are registered
PointerUp ==
    /\ \E l \in dragListeners : l.type \in {"pointerup", "pointercancel"}
    /\ StopDrag
    /\ UNCHANGED <<otherVars, freezeVars, histVars, viewVars, active, posVars, zVars, drawnListeners>>

\* an app is opened (showWindow)
OpenWindow(w) ==
    /\ ShowWindow(w)
    /\ lastWasMove' = FALSE
    /\ UNCHANGED <<otherVars, freezeVars, histVars, viewVars, isDragging, activeWindow, dragStartX,
                   dragStartY, windowStartX, windowStartY, dragListeners, drawnListeners>>

\* an app is closed (hideWindow)
CloseWindow(w) ==
    /\ active[w]
    /\ HideWindow(w)
    /\ lastWasMove' = FALSE
    /\ UNCHANGED <<otherVars, freezeVars, histVars, viewVars, isDragging, activeWindow,
                   dragStartX, dragStartY, windowStartX, windowStartY, dragListeners,
                   drawnListeners>>

\* the browser's viewport is resized (or a resize event leaves it as it is)
Resize(vw, vh) ==
    /\ HandleResize(vw, vh)
    /\ lastWasMove' = FALSE
    /\ UNCHANGED <<otherVars, freezeVars, histVars, active, zVars, isDragging, activeWindow, dragStartX,
                   dragStartY, windowStartX, windowStartY, dragListeners, drawnListeners>>

Next ==
    \/ \E w \in WindowIds, p \in Pointers : PointerDownHeader(w, p.x, p.y)
    \/ \E w \in WindowIds : PointerDownWindow(w)
    \/ \E p \in Pointers : PointerMove(p.x, p.y)
    \/ PointerUp
    \/ \E w \in AppWindows : OpenWindow(w)
    \/ \E w \in AppWindows : CloseWindow(w)
    \/ \E vp \in Viewports : Resize(vp.w, vp.h)

Spec == Init /\ [][Next]_vars


\* ================================= SpecFreeze: events through the interceptors

\* the element can be hit: every window it lies in is rendered
Reachable(target) ==
    \A w \in Ancestors(target) \cap AllWindows : Displayed(w, active, bodyDrawnMode)

\* the event e as it leaves the document's capture phase
Dispatched(e) ==
    LET eff == CaptureEffect(e)
    IN  [type |-> e.type, target |-> e.target, key |-> e.key, ctrlKey |-> e.ctrlKey,
         metaKey |-> e.metaKey, frozen |-> isDrawingMode,
         defaultPrevented |-> eff.defaultPrevented,
         propagationStopped |-> eff.propagationStopped,
         immediateStopped |-> eff.immediateStopped]

\* a click, double click, mouse-down or mouse-up; below the document a click on the
\* toggle button toggles the mode and a double click on a desktop icon opens its app
DispatchMouse(type, target) ==
    LET e == [type |-> type, target |-> target, key |-> "", ctrlKey |-> FALSE, metaKey |-> FALSE]
    IN  /\ Reachable(target)
        /\ evt' = Dispatched(e)
        /\ IF Propagates(e) /\ type = "click" /\ Closest(target, "drawingModeToggle")
           THEN Toggle /\ UNCHANGED <<active, zVars>>
           ELSE IF Propagates(e) /\ type = "dblclick" /\ \E i \in IconIds : Closest(target, i)
           THEN /\ \E i \in IconIds : Closest(target, i) /\ ShowWindow(IconWindow[i])
                /\ UNCHANGED <<freezeVars, drawnListeners>>
           ELSE UNCHANGED <<freezeVars, drawnListeners, posVars, active, zVars>>
        /\ UNCHANGED <<otherVars, calls, viewVars, dragVars>>

\* a key event; below the document a keydown of Ctrl/Cmd+D toggles the mode
DispatchKey(type, target, key, ctrlKey, metaKey) ==
    LET e == [type |-> type, target |-> target, key |-> key, ctrlKey |-> ctrlKey,
              metaKey |-> metaKey]
    IN  /\ Reachable(target)
        /\ evt' = Dispatched(e)
        /\ IF Propagates(e) /\ type = "keydown" /\ IsToggleShortcut(e)
           THEN Toggle
           ELSE UNCHANGED <<freezeVars, drawnListeners, posVars>>
        /\ UNCHANGED <<otherVars, calls, viewVars, dragVars, active, zVars>>

\* a form submission or a context-menu event
DispatchOther(type, target) ==
    LET e == [type |-> type, target |-> target, key |-> "", ctrlKey |-> FALSE, metaKey |-> FALSE]
    IN  /\ Reachable(target)
        /\ evt' = Dispatched(e)
        /\ UNCHANGED <<otherVars, freezeVars, calls, viewVars, active, posVars, zVars, dragVars,
                       drawnListeners>>

\* key presses: the toggle shortcut with either modifier, and presses that are not it
KeyPresses ==
    { [key |-> "d", ctrlKey |-> TRUE,  metaKey |-> FALSE],
      [key |-> "d", ctrlKey |-> FALSE, metaKey |-> TRUE],
      [key |-> "d", ctrlKey |-> FALSE, metaKey |-> FALSE],
      [key |-> "x", ctrlKey |-> TRUE,  metaKey |-> FALSE] }

\* the elements events are dispatched at: one of each kind the interceptors tell apart
Targets ==
    { "desktopBackground", "toggleIcon", "drawnComputerImage", "browserHeader", "urlInput",
      "cameraCanvas", "penColor", "galleryGrid", "cameraIconImage", "notepadIcon",
      "galleryIcon", "noteArea", "editableRegion" }

\* key events go to the focused element: a text field, the toggle button, or the body
KeyTargets ==
    { "urlInput", "penColor", "noteArea", "editableRegion", "drawingModeToggle", "body" }

NextFreeze ==
    \/ \E type \in ClickFamily, target \in Targets : DispatchMouse(type, target)
    \/ \E type \in KeyFamily, target \in KeyTargets, k \in KeyPresses :
          DispatchKey(type, target, k.key, k.ctrlKey, k.metaKey)
    \/ \E type \in {"submit", "contextmenu"}, target \in Targets : DispatchOther(type, target)

\* the page loaded in the largest of the viewports
InitFreeze == Init /\ innerWidth = 1200

SpecFreeze == InitFreeze /\ [][NextFreeze]_vars

\* ============================= SpecApi: the manager's methods called directly

\* the last three calls
Called(name) == IF Len(calls) < 3 THEN Append(calls, name) ELSE Append(Tail(calls), name)

ApiBlockInteractions ==
    /\ BlockInteractions
    /\ calls' = Called("enable")
    /\ UNCHANGED <<otherVars, isDrawingMode, bodyDrawnMode, buttonIcon, iconVars, storage, evt, viewVars,
                   active, posVars, zVars, dragVars, drawnListeners>>

ApiUnblockInteractions ==
    /\ UnblockInteractions
    /\ calls' = Called("disable")
    /\ UNCHANGED <<otherVars, isDrawingMode, bodyDrawnMode, buttonIcon, iconVars, storage, evt, viewVars,
                   active, posVars, zVars, dragVars, drawnListeners>>

ApiEnableDrawingMode ==
    /\ EnableDrawingMode
    /\ calls' = Called("enable")
    /\ UNCHANGED <<otherVars, isDrawingMode, storage, evt, viewVars, active, zVars, dragVars>>

ApiDisableDrawingMode ==
    /\ DisableDrawingMode
    /\ calls' = Called("disable")
    /\ UNCHANGED <<otherVars, isDrawingMode, storage, evt, viewVars, active, zVars, dragVars>>

NextApi ==
    \/ ApiBlockInteractions
    \/ ApiUnblockInteractions
    \/ ApiEnableDrawingMode
    \/ ApiDisableDrawingMode

SpecApi == Init /\ [][NextApi]_vars

\* ===================== SpecStorage: toggles and reloads with a failing storage

\* what a toggle or a reload leaves alone
StorageFrame ==
    UNCHANGED <<viewVars, active, zVars, dragVars, transitionVars, wmCall, cameraVars,
                missing, streamVars, alertLog, notesVars, controlVars, tabVars, introVars>>

\* the events that toggle the mode: a click on the button, Ctrl+D on the body
ToggleEvents ==
    { [type |-> "click", target |-> "toggleIcon", key |-> "", ctrlKey |-> FALSE,
       metaKey |-> FALSE],
      [type |-> "keydown", target |-> "body", key |-> "d", ctrlKey |-> TRUE,
       metaKey |-> FALSE] }

\* a toggle whose write of the preference succeeds
ToggleSaved(e) ==
    /\ storage # "throws"
    /\ Propagates(e)
    /\ evt' = Dispatched(e)
    /\ Toggle
    /\ calls' = Called("toggle")
    /\ UNCHANGED writeFailed
    /\ StorageFrame

\* a toggle whose write of the preference throws (storage full or not accessible)
ToggleUnsaved(e) ==
    /\ Propagates(e)
    /\ evt' = Dispatched(e)
    /\ ToggleSaveFails
    /\ calls' = Called("toggle")
    /\ writeFailed' = TRUE
    /\ StorageFrame

\* The page is loaded again: the scripts run on a fresh document with the storage
\* as it is.  (What StorageFrame names is never changed by a toggle, so it has the
\* value a fresh page gives it.)
Reload ==
    /\ UNCHANGED storage
    /\ isDrawingMode' = (storage = "enabled")
    /\ bodyDrawnMode' = (storage = "enabled")
    /\ buttonIcon' = IF storage = "enabled" THEN "computer" ELSE "pencil"
    /\ iconText' = [i \in IconIds |-> IF storage = "enabled" THEN "empty" ELSE "emoji"]
    /\ iconDrawn' = [i \in IconIds |-> storage = "enabled"]
    /\ originalIcons' = [i \in IconIds |-> IF storage = "enabled" THEN "emoji" ELSE "absent"]
    /\ interactionBlocker' = (IF storage = "enabled" THEN 1 ELSE 0)
    /\ keyBlocker' = (IF storage = "enabled" THEN 1 ELSE 0)
    /\ submitBlocker' = (IF storage = "enabled" THEN 1 ELSE 0)
    /\ contextMenuBlocker' = (IF storage = "enabled" THEN 1 ELSE 0)
    /\ docListeners' = (IF storage = "enabled" THEN ListenersOf(1) ELSE {})
    /\ doubleEnabled' = FALSE
    /\ positioned' = [positioned EXCEPT ![DrawnComputer] = FALSE]
    /\ left' = [left EXCEPT ![DrawnComputer] = 0]
    /\ top' = [top EXCEPT ![DrawnComputer] = 0]
    /\ drawnListeners' = 0
    /\ evt' = NoEvent
    /\ calls' = Called("reload")
    /\ writeFailed' = FALSE
    /\ StorageFrame

NextStorage ==
    \/ \E e \in ToggleEvents : ToggleSaved(e)
    \/ \E e \in ToggleEvents : ToggleUnsaved(e)
    \/ Reload

\* the page loaded with a storage that holds nothing, a value, or cannot be read
InitStorage ==
    /\ \E saved \in {"unset", "enabled", "disabled", "throws"} : LoadSavedPreference(saved)
    /\ \E vp \in Viewports : InitializeWindows(vp.w, vp.h)
    /\ evt = NoEvent
    /\ calls = <<>>
    /\ InitCamera([p \in Pixels |-> [r |-> 0, g |-> 0, b |-> 0]])
    /\ InitApps({})

SpecStorage == InitStorage /\ [][NextStorage]_vars

\* ============= SpecIllustration: toggles and pointers on the illustration

\* the enableDrawingMode calls a page may see
ToggleCap == MaxDrawnListeners + 1

\* showDrawnComputer while fewer than cap listeners are stacked on the illustration
ShowDrawnComputerWithin(cap) ==
    /\ drawnListeners < cap
    /\ left' = [left EXCEPT ![DrawnComputer] = Max(0, (innerWidth - imgWidth) \div 2)]
    /\ top' = [top EXCEPT ![DrawnComputer] = Max(0, (innerHeight - imgHeight) \div 2)]
    /\ positioned' = [positioned EXCEPT ![DrawnComputer] = TRUE]
    /\ drawnListeners' = drawnListeners + 1

\* enableDrawingMode() with that showDrawnComputer
EnableDrawingModeWithin(cap) ==
    /\ bodyDrawnMode' = TRUE
    /\ buttonIcon' = "computer"
    /\ SwapToDrawnIcons
    /\ ShowDrawnComputerWithin(cap)
    /\ BlockInteractions

\* toggle() with that enableDrawingMode
ToggleWithin(cap) ==
    /\ isDrawingMode' = ~isDrawingMode
    /\ IF ~isDrawingMode THEN EnableDrawingModeWithin(cap) ELSE DisableDrawingMode
    /\ SavePreference

IllustrationFrame ==
    UNCHANGED <<viewVars, active, transitionVars, wmCall, cameraVars, appVars>>

\* a click on the toggle button or Ctrl+D
ToggleMode(e) ==
    /\ Propagates(e)
    /\ evt' = Dispatched(e)
    /\ ToggleWithin(ToggleCap)
    /\ calls' = Called("toggle")
    /\ UNCHANGED <<zVars, dragVars>>
    /\ IllustrationFrame

\* pointer-down on the illustration while it is displayed: every listener that
\* makeDrawnComputerDraggable has added runs startDrag
IllustrationPointerDown(x, y) ==
    /\ ~isDragging
    /\ Displayed(DrawnComputer, active, bodyDrawnMode)
    /\ drawnListeners > 0
    /\ Propagates(PointerDownEvent("drawnComputerImage"))
    /\ StartDrag(DrawnComputer, x, y, drawnListeners)
    /\ UNCHANGED <<freezeVars, histVars, drawnListeners>>
    /\ IllustrationFrame

NextIllustration ==
    \/ \E e \in ToggleEvents : ToggleMode(e)
    \/ \E p \in Pointers : IllustrationPointerDown(p.x, p.y)
    \/ \E p \in Pointers : PointerMove(p.x, p.y)
    \/ PointerUp

SpecIllustration == Init /\ [][NextIllustration]_vars

\* ======================= SpecWindows: the WindowManager's methods and resize

\* the windows a step moves
Moved == { w \in AllWindows :
             left'[w] # left[w] \/ top'[w] # top[w] \/ positioned'[w] # positioned[w] }

\* what a call leaves alone outside the WindowManager and the windows
WmFrame ==
    UNCHANGED <<freezeVars, histVars, dragVars, drawnListeners, transitionVars, cameraVars,
                appVars>>

WmShowWindow(w) ==
    /\ ShowWindow(w)
    /\ WmFrame
    /\ UNCHANGED viewVars
    /\ wmCall' = [op |-> "showWindow", id |-> w, moved |-> Moved]

WmHideWindow(w) ==
    /\ HideWindow(w)
    /\ WmFrame
    /\ UNCHANGED viewVars
    /\ wmCall' = [op |-> "hideWindow", id |-> w, moved |-> Moved]

WmResetWindowPosition(w) ==
    /\ ResetWindowPosition(w)
    /\ WmFrame
    /\ UNCHANGED <<viewVars, active>>
    /\ wmCall' = [op |-> "resetWindowPosition", id |-> w, moved |-> Moved]

\* pointer-down on a window outside its header: bringToFront
WmBringToFront(w) ==
    /\ Displayed(w, active, bodyDrawnMode)
    /\ BringToFront(w, 1)
    /\ WmFrame
    /\ UNCHANGED <<viewVars, active, posVars>>
    /\ wmCall' = [op |-> "bringToFront", id |-> w, moved |-> Moved]

WmResize(vw, vh) ==
    /\ HandleResize(vw, vh)
    /\ WmFrame
    /\ UNCHANGED <<active, zVars>>
    /\ wmCall' = [op |-> "resize", id |-> "", moved |-> Moved]

\* the window ids the methods are called with
CalledApps == {"cameraWindow", "notepadWindow"}
CalledWindows == {"browserWindow", "cameraWindow", "notepadWindow"}

NextWindows ==
    \/ \E w \in CalledApps : WmShowWindow(w)
    \/ \E w \in CalledApps : WmHideWindow(w)
    \/ \E w \in CalledWindows : WmResetWindowPosition(w)
    \/ \E w \in CalledWindows : WmBringToFront(w)
    \/ \E vp \in Viewports : WmResize(vp.w, vp.h)

\* the page loaded without a saved preference
InitWindows == Init /\ storage = "unset"

SpecWindows == InitWindows /\ [][NextWindows]_vars

\* ============================ SpecDrag: drag sessions with several pointers

\* what a pointer event of a drag leaves alone
DragFrame ==
    UNCHANGED <<freezeVars, histVars, viewVars, active, drawnListeners, wmCall, cameraVars,
                appVars>>

\* pointer-down on a window's header, whether or not a drag is going on (a second
\* touch, or a pointer whose release was never delivered)
DragPointerDown(w, x, y) ==
    /\ Displayed(w, active, bodyDrawnMode)
    /\ Propagates(PointerDownEvent(HeaderOf[w]))
    /\ StartDrag(w, x, y, 1)
    /\ SuspendTransition(w)
    /\ UNCHANGED timers
    /\ DragFrame

\* pointer-move on the document
DragPointerMove(x, y) ==
    /\ \E l \in dragListeners : l.type = "pointermove"
    /\ HandleDrag(x, y)
    /\ UNCHANGED <<zVars, transitionVars>>
    /\ DragFrame

\* pointer-up or pointer-cancel on the document
DragPointerUp ==
    /\ \E l \in dragListeners : l.type \in {"pointerup", "pointercancel"}
    /\ StopDrag
    /\ ScheduleRestore
    /\ UNCHANGED <<posVars, zVars, transitionNone>>
    /\ DragFrame

\* the oldest pending timeout of stopDrag fires
TimerFires ==
    /\ timers # <<>>
    /\ RestoreTransition
    /\ timers' = Tail(timers)
    /\ lastWasMove' = FALSE
    /\ UNCHANGED <<posVars, zVars, isDragging, activeWindow, dragStartX, dragStartY,
                   windowStartX, windowStartY, dragListeners>>
    /\ DragFrame

NextDrag ==
    \/ \E w \in WindowIds, p \in Pointers : DragPointerDown(w, p.x, p.y)
    \/ \E p \in Pointers : DragPointerMove(p.x, p.y)
    \/ DragPointerUp
    \/ TimerFires
    \/ \E w \in CalledApps : OpenWindow(w)

\* the page loaded without a saved preference
InitDrag == Init /\ storage = "unset"

SpecDrag == InitDrag /\ [][NextDrag]_vars

\* ========================== SpecCamera: capture sessions and the render loop

\* what the camera's steps leave alone
CamFrame ==
    UNCHANGED <<histVars, viewVars, dragVars, transitionVars, wmCall, frame, missing,
                notesVars, writeFailed, controlVars, tabVars, introVars>>

\* openCamera(): showWindow('cameraWindow'), which calls startWebcam()
OpenCamera ==
    /\ ShowWindow("cameraWindow")
    /\ StartWebcam
    /\ UNCHANGED <<freezeVars, drawnListeners, sketch, output, alertLog>>
    /\ CamFrame

\* the window manager's hideWindow('cameraWindow'), which calls stopCamera()
HideCamera ==
    /\ active["cameraWindow"]
    /\ HideWindow("cameraWindow")
    /\ StopCamera
    /\ UNCHANGED <<freezeVars, drawnListeners, sketch, output, alertLog>>
    /\ CamFrame

\* closeCamera(): stopCamera(), then hideWindow('cameraWindow') with its second
\* stopCamera(), which finds nothing left to stop and clears the same things again
CloseCamera ==
    /\ active["cameraWindow"]
    /\ StopCamera
    /\ HideWindow("cameraWindow")
    /\ UNCHANGED <<freezeVars, drawnListeners, sketch, output, alertLog>>
    /\ CamFrame

\* the 100 ms settling delay of a call is over: it asks for the device
DelayElapsed(c) ==
    /\ webcamCalls[c].pc = "delay"
    /\ webcamCalls' = [webcamCalls EXCEPT ![c].pc = "device"]
    /\ UNCHANGED <<currentStream, animationFrameId, liveStreams, pendingFrames, videoSrc,
                   videoPaused, canvas>>
    /\ UNCHANGED <<freezeVars, active, posVars, zVars, drawnListeners, sketch, output,
                   alertLog>>
    /\ CamFrame

\* getUserMedia resolves for a call: it keeps the stream, hands it to the video
\* element and calls play()
DeviceGranted(c) ==
    /\ webcamCalls[c].pc = "device"
    /\ FreshStreams # {}
    /\ LET s == CHOOSE t \in FreshStreams : \A u \in FreshStreams : t <= u
       IN  /\ liveStreams' = liveStreams \cup {s}
           /\ currentStream' = s
           /\ videoSrc' = s
           /\ webcamCalls' = [InterruptPlays(webcamCalls) EXCEPT
                                 ![c] = [pc |-> "play", stream |-> s, interrupted |-> FALSE]]
    /\ videoPaused' = FALSE
    /\ UNCHANGED <<animationFrameId, pendingFrames, canvas>>
    /\ UNCHANGED <<freezeVars, active, posVars, zVars, drawnListeners, sketch, output,
                   alertLog>>
    /\ CamFrame

\* getUserMedia rejects for a call: the catch shows one alert
DeviceFails(c, name) ==
    /\ webcamCalls[c].pc = "device"
    /\ alertLog' = Append(alertLog, ErrorMessage(name))
    /\ webcamCalls' = [webcamCalls EXCEPT ![c] = IdleCall]
    /\ UNCHANGED <<currentStream, animationFrameId, liveStreams, pendingFrames, videoSrc,
                   videoPaused, canvas>>
    /\ UNCHANGED <<freezeVars, active, posVars, zVars, drawnListeners, sketch, output>>
    /\ CamFrame

\* play() resolves for a call: startRendering sizes the canvas and renders the
\* first frame
PlayResolved(c) ==
    /\ webcamCalls[c].pc = "play"
    /\ ~webcamCalls[c].interrupted
    /\ RenderCameraFrame(pendingFrames)
    /\ webcamCalls' = [webcamCalls EXCEPT ![c] = IdleCall]
    /\ UNCHANGED <<currentStream, liveStreams, videoSrc, videoPaused>>
    /\ UNCHANGED <<freezeVars, active, posVars, zVars, drawnListeners, alertLog>>
    /\ CamFrame

\* play() rejects for a call whose playback was reset meanwhile: the catch shows
\* an alert with the error's own message
PlayRejected(c) ==
    /\ webcamCalls[c].pc = "play"
    /\ webcamCalls[c].interrupted
    /\ alertLog' = Append(alertLog, ErrorMessage("AbortError"))
    /\ webcamCalls' = [webcamCalls EXCEPT ![c] = IdleCall]
    /\ UNCHANGED <<currentStream, animationFrameId, liveStreams, pendingFrames, videoSrc,
                   videoPaused, canvas>>
    /\ UNCHANGED <<freezeVars, active, posVars, zVars, drawnListeners, sketch, output>>
    /\ CamFrame

\* a requested animation frame arrives
FrameCallback(f) ==
    /\ f \in pendingFrames
    /\ RenderCameraFrame(pendingFrames \ {f})
    /\ UNCHANGED <<currentStream, liveStreams, videoSrc, videoPaused, webcamCalls>>
    /\ UNCHANGED <<freezeVars, active, posVars, zVars, drawnListeners, alertLog>>
    /\ CamFrame

\* the device goes away: the tracks of a stream end
DeviceLost(s) ==
    /\ s \in liveStreams
    /\ liveStreams' = liveStreams \ {s}
    /\ UNCHANGED <<currentStream, animationFrameId, pendingFrames, videoSrc, videoPaused,
                   canvas, webcamCalls>>
    /\ UNCHANGED <<freezeVars, active, posVars, zVars, drawnListeners, sketch, output,
                   alertLog>>
    /\ CamFrame

\* the mode is toggled while the camera runs
CamToggle ==
    /\ Toggle
    /\ UNCHANGED <<active, zVars, streamVars, sketch, output, alertLog>>
    /\ CamFrame

NextCamera ==
    \/ OpenCamera
    \/ HideCamera
    \/ CloseCamera
    \/ \E c \in 1..MaxCalls : DelayElapsed(c)
    \/ \E c \in 1..MaxCalls : DeviceGranted(c)
    \/ \E c \in 1..MaxCalls, name \in ErrorNames : DeviceFails(c, name)
    \/ \E c \in 1..MaxCalls : PlayResolved(c)
    \/ \E c \in 1..MaxCalls : PlayRejected(c)
    \/ \E f \in 1..(MaxBring + 1) : FrameCallback(f)
    \/ \E s \in 1..MaxBring : DeviceLost(s)
    \/ CamToggle

\* the page loaded in the largest viewport without a saved preference
InitCameraSession == Init /\ storage = "unset" /\ innerWidth = 1200

SpecCamera == InitCameraSession /\ [][NextCamera]_vars

\* ============== SpecMissing: calls in a document that lacks some elements

\* what a call on the window manager leaves alone here
MissingFrame ==
    UNCHANGED <<freezeVars, histVars, viewVars, dragVars, drawnListeners, transitionVars,
                cameraVars, appVars>>

CallShowWindow(id) ==
    /\ ShowWindowById(id)
    /\ MissingFrame
    /\ wmCall' = [op |-> "showWindow", id |-> id, moved |-> Moved]

CallHideWindow(id) ==
    /\ HideWindowById(id)
    /\ MissingFrame
    /\ wmCall' = [op |-> "hideWindow", id |-> id, moved |-> Moved]

CallCenterWindow(id) ==
    /\ CenterWindowById(id)
    /\ MissingFrame
    /\ UNCHANGED <<active, zVars>>
    /\ wmCall' = [op |-> "centerWindow", id |-> id, moved |-> Moved]

CallResetWindowPosition(id) ==
    /\ ResetWindowPositionById(id)
    /\ MissingFrame
    /\ UNCHANGED active
    /\ wmCall' = [op |-> "resetWindowPosition", id |-> id, moved |-> Moved]

CallBringToFront(id) ==
    /\ BringToFrontElement(id)
    /\ MissingFrame
    /\ UNCHANGED <<active, posVars>>
    /\ wmCall' = [op |-> "bringToFront", id |-> id, moved |-> Moved]

\* the ids the methods are called with: one the document has, one it has not
CalledIds == {"galleryWindow", "noSuchWindow"}

NextMissing ==
    \/ \E id \in CalledIds : CallShowWindow(id)
    \/ \E id \in CalledIds : CallHideWindow(id)
    \/ \E id \in CalledIds : CallCenterWindow(id)
    \/ \E id \in CalledIds : CallResetWindowPosition(id)
    \/ \E id \in CalledIds : CallBringToFront(id)
    \/ OpenCamera
    \/ HideCamera

\* the page loaded in a document without the camera's video, or canvas, or both
InitMissing ==
    /\ InitPage
    /\ storage = "unset"
    /\ InitCamera([p \in Pixels |-> [r |-> 0, g |-> 0, b |-> 0]])
    /\ \E m \in (SUBSET {"cameraVideo", "cameraCanvas"}) \ {{}} : InitApps(m)

SpecMissing == InitMissing /\ [][NextMissing]_vars

\* ================================= SpecNotes: the notepad and the gallery

\* the bringToFront calls a session of drawing may make
NotesBrings == MaxBring + 2

\* showWindow(w) while the counter is below baseZIndex + cap; constrains active,
\* posVars and zVars
ShowWindowWithin(w, cap) ==
    /\ currentZIndex + 1 <= baseZIndex + cap
    /\ active' = [active EXCEPT ![w] = TRUE]
    /\ CenterWindowNow(w, Rect(w, Displayed(w, active', bodyDrawnMode), innerWidth, innerHeight),
                       innerWidth, innerHeight)
    /\ currentZIndex' = NextZIndex(currentZIndex)
    /\ styleZ' = [styleZ EXCEPT ![w] = NextZIndex(currentZIndex)]
    /\ windows' = IF w \in DOMAIN windows
                  THEN [windows EXCEPT ![w] = NextZIndex(currentZIndex)]
                  ELSE windows
    /\ lastFront' = w
    /\ frontOrder' = Append(SelectSeq(frontOrder, LAMBDA v : v # w), w)

\* setupDrawingCanvas(): this.canvas is the canvas of the document or null; its
\* bitmap takes the size of its box and is filled white (no strokes). sized: the
\* box had a width and a height, as it has in a window that is displayed
SetupDrawingCanvas ==
    notepadCanvas' = IF "notepadCanvas" \notin DocumentIds THEN NoCanvas
                     ELSE [element |-> TRUE,
                           sized |-> Displayed("notepadWindow", active', bodyDrawnMode),
                           strokes |-> 0]

\* the URL "data:,", which names no image
EmptyDataURL == [mime |-> "", bitmap |-> 0]

\* canvas.toDataURL('image/png'): the PNG of the bitmap, "data:," for a bitmap
\* with no pixels
ToDataURL(c) ==
    IF ~c.sized THEN EmptyDataURL ELSE [mime |-> "image/png", bitmap |-> c.strokes]

\* the entry of a drawing; its id and timestamp are read from the clock and play
\* no part in the order of the list
Drawing(c) == [dataURL |-> ToDataURL(c)]

\* a push at the wrong end
PushFront(list, d) == <<d>> \o list

\* this.drawings.push(drawing)
Push(list, d) == Append(list, d)

\* the items renderGallery builds from a list: img.src and the n of alt 'Drawing n'
GalleryOf(list) == [i \in 1..Len(list) |-> [src |-> list[i].dataURL, alt |-> i]]

\* renderGallery() for the list it finds; constrains galleryItems. With no
\* drawings the grid holds the placeholder paragraph and no item
RenderGallery(list) ==
    galleryItems' = IF "galleryGrid" \notin DocumentIds THEN galleryItems ELSE GalleryOf(list)

\* clearNotepad() on a canvas c
Cleared(c) == IF ~c.element THEN c ELSE [c EXCEPT !.strokes = 0]

NotesFrame ==
    UNCHANGED <<freezeVars, histVars, viewVars, dragVars, drawnListeners, transitionVars,
                cameraVars, wmCall, missing, streamVars, writeFailed, controlVars, tabVars,
                introVars>>

\* openNotepad(): showWindow('notepadWindow'), which calls setupDrawingCanvas()
OpenNotepad ==
    /\ ShowWindowWithin("notepadWindow", NotesBrings)
    /\ SetupDrawingCanvas
    /\ UNCHANGED <<drawings, galleryItems, alertLog>>
    /\ NotesFrame

\* mousedown and mousemove on the canvas: startDrawing, then draw strokes a line
DrawStroke ==
    /\ active["notepadWindow"]
    /\ notepadCanvas.element
    /\ notepadCanvas.strokes < MaxStrokes
    /\ notepadCanvas' = [notepadCanvas EXCEPT !.strokes = @ + 1]
    /\ UNCHANGED <<drawings, galleryItems, alertLog, active, posVars, zVars>>
    /\ NotesFrame

\* the Clear button: clearNotepad()
ClearNotepad ==
    /\ notepadCanvas' = Cleared(notepadCanvas)
    /\ UNCHANGED <<drawings, galleryItems, alertLog, active, posVars, zVars>>
    /\ NotesFrame

\* submitDrawing(): with no canvas an alert and nothing else; otherwise the push,
\* clearNotepad(), openGallery() and the alert
SubmitDrawing ==
    /\ IF ~notepadCanvas.element
       THEN /\ Len(alertLog) < NotesBrings
            /\ alertLog' = Append(alertLog, "No drawing to submit!")
            /\ UNCHANGED <<notesVars, active, posVars, zVars>>
       ELSE /\ drawings' = Push(drawings, Drawing(notepadCanvas))
            /\ notepadCanvas' = Cleared(notepadCanvas)
            /\ ShowWindowWithin("galleryWindow", NotesBrings)
            /\ RenderGallery(drawings')
            /\ alertLog' = Append(alertLog, "Drawing submitted to gallery!")
    /\ NotesFrame

\* openGallery(): showWindow('galleryWindow'), then renderGallery()
OpenGallery ==
    /\ ShowWindowWithin("galleryWindow", NotesBrings)
    /\ RenderGallery(drawings)
    /\ UNCHANGED <<drawings, notepadCanvas, alertLog>>
    /\ NotesFrame

\* closeNotepad(): hideWindow('notepadWindow')
CloseNotepad ==
    /\ active["notepadWindow"]
    /\ HideWindow("notepadWindow")
    /\ UNCHANGED <<notesVars, alertLog>>
    /\ NotesFrame

\* closeGallery(): hideWindow('galleryWindow')
CloseGallery ==
    /\ active["galleryWindow"]
    /\ HideWindow("galleryWindow")
    /\ UNCHANGED <<notesVars, alertLog>>
    /\ NotesFrame

NextNotes ==
    \/ OpenNotepad
    \/ DrawStroke
    \/ ClearNotepad
    \/ SubmitDrawing
    \/ OpenGallery
    \/ CloseNotepad
    \/ CloseGallery

\* the page loaded, in a document that may lack the notepad's canvas or the grid
InitNotes ==
    /\ InitPage
    /\ storage = "unset"
    /\ innerWidth = 1200
    /\ InitCamera([p \in Pixels |-> [r |-> 0, g |-> 0, b |-> 0]])
    /\ \E m \in SUBSET {"notepadCanvas", "galleryGrid"} : InitApps(m)

SpecNotes == InitNotes /\ [][NextNotes]_vars

\* ================== SpecControls: the close and minimize controls of a window

\* the windows whose controls are clicked here, each with a control of its header
ControlOf == [browserWindow |-> "browserCloseBtn", notepadWindow |-> "notepadCloseBtn"]

\* the bringToFront calls the page may see here
ControlBrings == MaxBring + 1

ControlsFrame ==
    UNCHANGED <<freezeVars, viewVars, dragVars, drawnListeners, transitionVars, wmCall,
                cameraVars, missing, streamVars, alertLog, writeFailed, calls, tabVars,
                introVars>>

\* a click on the close or on the minimize control of window w: the two document
\* listeners do the same to the state kept here (they differ in the scale they
\* add to style.transform): opacity '0' now, the rest after 300 ms
ClickControl(w) ==
    /\ Displayed(w, active, bodyDrawnMode)
    /\ Len(closeTimers) < MaxTimers
    /\ evt' = Dispatched([type |-> "click", target |-> ControlOf[w], key |-> "",
                          ctrlKey |-> FALSE, metaKey |-> FALSE])
    /\ IF Propagates([type |-> "click", target |-> ControlOf[w], key |-> "",
                      ctrlKey |-> FALSE, metaKey |-> FALSE])
       THEN /\ faded' = [faded EXCEPT ![w] = TRUE]
            /\ closeTimers' = Append(closeTimers, w)
            /\ shown' = [shown EXCEPT ![w] = FALSE]
       ELSE UNCHANGED <<faded, closeTimers, shown>>
    /\ UNCHANGED <<displayNone, active, posVars, zVars, notesVars>>
    /\ ControlsFrame

\* the oldest timeout of a control fires: display 'none', class 'active' removed,
\* opacity '1'
CloseTimerFires ==
    /\ closeTimers # <<>>
    /\ LET w == Head(closeTimers)
       IN  /\ displayNone' = [displayNone EXCEPT ![w] = TRUE]
           /\ active' = [active EXCEPT ![w] = FALSE]
           /\ faded' = [faded EXCEPT ![w] = FALSE]
    /\ closeTimers' = Tail(closeTimers)
    /\ UNCHANGED <<shown, evt, posVars, zVars, notesVars>>
    /\ ControlsFrame

\* showWindow(w), with setupDrawingCanvas() for the notepad
ShowControlled(w) ==
    /\ ShowWindowWithin(w, ControlBrings)
    /\ IF w = "notepadWindow"
       THEN SetupDrawingCanvas /\ UNCHANGED <<drawings, galleryItems>>
       ELSE UNCHANGED notesVars
    /\ shown' = [shown EXCEPT ![w] = ~displayNone[w]]
    /\ UNCHANGED <<displayNone, faded, closeTimers, evt>>
    /\ ControlsFrame

NextControls ==
    \/ \E w \in DOMAIN ControlOf : ClickControl(w)
    \/ CloseTimerFires
    \/ \E w \in DOMAIN ControlOf : ShowControlled(w)

SpecControls == Init /\ [][NextControls]_vars

\* ============================================ SpecTabs: the browser's tabs

\* tabs.length: the NodeList querySelectorAll('.tab') gave setupBrowser; it is
\* not live, so it counts the tabs of the markup whatever was removed since
TabsLength == Cardinality(TabNames)

\* a click inside the browser window, as the capture phase sees it
TabClickEvent ==
    [type |-> "click", target |-> "browserHeader", key |-> "", ctrlKey |-> FALSE,
     metaKey |-> FALSE]

TabsFrame ==
    UNCHANGED <<freezeVars, viewVars, active, posVars, zVars, dragVars, drawnListeners,
                transitionVars, wmCall, cameraVars, missing, streamVars, alertLog, notesVars,
                writeFailed, controlVars, introVars, calls>>

\* if (tabs.length > 1)
MayClose(n) == n > 1

\* a click on a tab (not on its close button): the tab and its page become active
ClickTab(t) ==
    /\ t \in tabsInDom
    /\ Displayed("browserWindow", active, bodyDrawnMode)
    /\ evt' = Dispatched(TabClickEvent)
    /\ activeTab' = IF Propagates(TabClickEvent) THEN t ELSE activeTab
    /\ UNCHANGED <<tabsInDom, tabTimers>>
    /\ TabsFrame

\* a click on the close button of a tab: the removal is scheduled for 200 ms later
ClickTabClose(t) ==
    /\ t \in tabsInDom
    /\ Displayed("browserWindow", active, bodyDrawnMode)
    /\ Len(tabTimers) < MaxTimers
    /\ evt' = Dispatched(TabClickEvent)
    /\ tabTimers' = IF Propagates(TabClickEvent) /\ MayClose(TabsLength)
                    THEN Append(tabTimers, t)
                    ELSE tabTimers
    /\ UNCHANGED <<tabsInDom, activeTab>>
    /\ TabsFrame

\* the oldest timeout fires: tab.remove()
TabTimerFires ==
    /\ tabTimers # <<>>
    /\ tabsInDom' = tabsInDom \ {Head(tabTimers)}
    /\ tabTimers' = Tail(tabTimers)
    /\ UNCHANGED <<activeTab, evt>>
    /\ TabsFrame

\* Ctrl+D or a click on the toggle button
TabsToggle(e) ==
    /\ Propagates(e)
    /\ evt' = Dispatched(e)
    /\ ToggleWithin(ToggleCap)
    /\ UNCHANGED <<zVars, dragVars, active, viewVars, transitionVars, wmCall, cameraVars,
                   missing, streamVars, alertLog, notesVars, writeFailed, controlVars,
                   introVars, calls, tabVars>>

NextTabs ==
    \/ \E t \in TabNames : ClickTab(t)
    \/ \E t \in TabNames : ClickTabClose(t)
    \/ TabTimerFires
    \/ \E e \in ToggleEvents : TabsToggle(e)

SpecTabs == Init /\ [][NextTabs]_vars

\* ========================================= SpecIntro: the intro's cloud trail

MAX_TRAIL_CLOUDS == 30

\* the elements of a sequence
Range(q) == { q[i] : i \in 1..Len(q) }

IntroFrame ==
    UNCHANGED <<freezeVars, histVars, viewVars, active, zVars, dragVars, drawnListeners,
                transitionVars, wmCall, cameraVars, missing, streamVars, alertLog, notesVars,
                writeFailed, controlVars, tabVars>>

\* a spawnTrailCloud that never drops the oldest cloud
SpawnTrailCloudNoLimit ==
    /\ spawned < MaxSpawns
    /\ trailClouds' = Append(trailClouds, spawned + 1)
    /\ domClouds' = domClouds \cup {spawned + 1}
    /\ cloudTimers' = Append(cloudTimers, spawned + 1)
    /\ spawned' = spawned + 1

\* spawnTrailCloud(x, y): the oldest tracked cloud goes when the list is full;
\* the new cloud is appended to the body and to the list, and its expiry is set
SpawnTrailCloud ==
    LET full == Len(trailClouds) >= MAX_TRAIL_CLOUDS
        kept == IF full THEN Tail(trailClouds) ELSE trailClouds
        dropped == IF full THEN {Head(trailClouds)} ELSE {}
    IN  /\ spawned < MaxSpawns
        /\ trailClouds' = Append(kept, spawned + 1)
        /\ domClouds' = (domClouds \ dropped) \cup {spawned + 1}
        /\ cloudTimers' = Append(cloudTimers, spawned + 1)
        /\ spawned' = spawned + 1

\* a mousemove on the document at p; elapsed: more than TRAIL_SPAWN_INTERVAL ms
\* have passed since the last trail cloud
MouseMove(p, elapsed) ==
    /\ IF mouseMoveHandler /\ isIntroActive
       THEN /\ cursorAt' = p
            /\ IF elapsed
               THEN SpawnTrailCloud
               ELSE UNCHANGED <<trailClouds, domClouds, cloudTimers, spawned>>
       ELSE UNCHANGED <<cursorAt, trailClouds, domClouds, cloudTimers, spawned>>
    /\ UNCHANGED <<introPhase, isIntroActive, cursorInDom, mouseMoveHandler, posVars>>
    /\ IntroFrame

\* the expiry timeout of the oldest cloud that has one fires (CLOUD_LIFETIME is
\* the same for all, so they fire in the order the clouds were created)
CloudExpires ==
    /\ cloudTimers # <<>>
    /\ domClouds' = domClouds \ {Head(cloudTimers)}
    /\ trailClouds' = SelectSeq(trailClouds, LAMBDA c : c # Head(cloudTimers))
    /\ cloudTimers' = Tail(cloudTimers)
    /\ UNCHANGED <<introPhase, isIntroActive, cursorInDom, cursorAt, mouseMoveHandler,
                   spawned, posVars>>
    /\ IntroFrame

\* cleanupCloudCursor(); constrains the intro's state but introPhase, cursorAt,
\* cloudTimers and spawned
CleanupCloudCursor ==
    /\ isIntroActive' = FALSE
    /\ cursorInDom' = FALSE
    /\ domClouds' = domClouds \ Range(trailClouds)
    /\ trailClouds' = <<>>
    /\ mouseMoveHandler' = FALSE

\* fadeOutIntro(), ANIMATION_DURATION after the page was loaded
FadeOutIntro ==
    /\ introPhase = "shown"
    /\ introPhase' = "fading"
    /\ UNCHANGED <<isIntroActive, cursorInDom, cursorAt, mouseMoveHandler, trailClouds,
                   domClouds, cloudTimers, spawned, posVars>>
    /\ IntroFrame

\* the timeout of fadeOutIntro, FADE_TRANSITION later: the intro screen goes,
\* the cloud cursor is cleaned up, the desktop is displayed
FadeDone ==
    /\ introPhase = "fading"
    /\ introPhase' = "desktop"
    /\ CleanupCloudCursor
    /\ UNCHANGED <<cursorAt, cloudTimers, spawned, posVars>>
    /\ IntroFrame

\* the last timeout of the intro: centerWindowNow(browserWindow)
IntroCentre ==
    /\ introPhase = "desktop"
    /\ introPhase' = "centred"
    /\ CenterWindowNow("browserWindow", RectNow("browserWindow"), innerWidth, innerHeight)
    /\ UNCHANGED <<isIntroActive, cursorInDom, cursorAt, mouseMoveHandler, trailClouds,
                   domClouds, cloudTimers, spawned>>
    /\ IntroFrame

NextIntro ==
    \/ \E p \in Pointers, elapsed \in BOOLEAN : MouseMove(p, elapsed)
    \/ CloudExpires
    \/ FadeOutIntro
    \/ FadeDone
    \/ IntroCentre

\* the page when DOMContentLoaded has run initCloudCursor
InitIntro ==
    /\ InitPage
    /\ storage = "unset"
    /\ innerWidth = 1200
    /\ InitCamera([p \in Pixels |-> [r |-> 0, g |-> 0, b |-> 0]])
    /\ InitDesktopApps({})
    /\ InitTabs
    /\ introPhase = "shown"
    /\ isIntroActive = TRUE
    /\ cursorInDom = TRUE
    /\ cursorAt = [x |-> 0, y |-> 0]
    /\ mouseMoveHandler = TRUE
    /\ trailClouds = <<>>
    /\ domClouds = {}
    /\ cloudTimers = <<>>
    /\ spawned = 0

SpecIntro == InitIntro /\ [][NextIntro]_vars

\* ================================== SpecFilter: the sketch filter on a frame

\* a frame of the video has been drawn on the canvas
InitFilter ==
    /\ InitPage
    /\ storage = "unset"
    /\ innerWidth = 1200
    /\ \E palette \in Palettes : \E pix \in [Pixels -> palette] : InitCamera(pix)
    /\ InitApps({})

\* one turn of the render loop in drawn mode
FilterFrame ==
    /\ ApplySketchFilter
    /\ UNCHANGED <<freezeVars, histVars, viewVars, active, posVars, zVars, dragVars,
                   drawnListeners, transitionVars, wmCall, frame, appVars>>

NextFilter == FilterFrame

SpecFilter == InitFilter /\ [][NextFilter]_vars

\* ------------------------------------------------------------ claims, Spec

\* C1: every bringToFront assigns a z-index strictly greater than every z-index
\* assigned before it, the shared counter never decreases, and the window of the
\* last call holds the strictly highest z-index of all windows.
ZOrderInv ==
    /\ \A w \in AllWindows : styleZ[w] <= currentZIndex
    /\ lastFront # "" =>
          /\ styleZ[lastFront] = currentZIndex
          /\ \A w \in AllWindows \ {lastFront} : styleZ[w] < styleZ[lastFront]

C1_BringToFrontMonotonic ==
    /\ []ZOrderInv
    /\ [][ /\ currentZIndex' >= currentZIndex
           /\ \A w \in AllWindows :
                styleZ'[w] # styleZ[w] =>
                    /\ styleZ'[w] > currentZIndex
                    /\ \A v \in AllWindows : styleZ'[w] > styleZ[v]
                    /\ lastFront' = w ]_vars

\* two calls on two windows: the later one is in front
C1_Witness ==
    /\ lastFront # ""
    /\ currentZIndex = baseZIndex + 2
    /\ \E w \in AllWindows \ {lastFront} : styleZ[w] = baseZIndex + 1

\* the clamp bounds of the claim, on the style position and the rendered width
InClamp(w) ==
    /\ left[w] >= -(RectNow(w).width - DragKeepX)
    /\ left[w] <= innerWidth - DragKeepX
    /\ top[w] >= 0
    /\ top[w] <= innerHeight - DragKeepY

\* C2, as claimed: at the end of every drag session (pointer-up or pointer-cancel),
\* whatever the number of pointer-moves, the window's position is within the clamp
\* bounds.
C2_FinalPositionClamped ==
    [][ (isDragging /\ ~isDragging') => InClamp(activeWindow) ]_vars

\* C2, amended: right after a pointer-move of a drag session the dragged window has
\* left >= -(width - 100) and top >= 0, left <= viewportWidth - 100 when that bound
\* is not below the lower one, and top <= viewportHeight - 50 when viewportHeight >= 50.
C2_ClampedAfterMove ==
    (isDragging /\ lastWasMove) =>
        LET w == activeWindow
            width == RectNow(w).width
        IN  /\ left[w] >= -(width - DragKeepX)
            /\ top[w] >= 0
            /\ (innerWidth - DragKeepX >= -(width - DragKeepX)) => left[w] <= innerWidth - DragKeepX
            /\ (innerHeight >= DragKeepY) => top[w] <= innerHeight - DragKeepY

\* a move stopped by the right and bottom bounds
C2_Witness ==
    /\ isDragging
    /\ lastWasMove
    /\ left[activeWindow] = innerWidth - DragKeepX
    /\ top[activeWindow] = innerHeight - DragKeepY
    /\ windowStartX < left[activeWindow]

\* C9, as claimed: while freeze mode is on, a pointer-down on the header of the
\* browser window (not allow-listed) starts no drag session and changes neither the
\* window's position nor its z-index.
C9_FrozenPointerDownSuppressed ==
    [][ ( /\ isDrawingMode
          /\ \E p \in Pointers : PointerDownHeader("browserWindow", p.x, p.y) )
        => /\ UNCHANGED <<isDragging, activeWindow>>
           /\ left'["browserWindow"] = left["browserWindow"]
           /\ top'["browserWindow"] = top["browserWindow"]
           /\ styleZ'["browserWindow"] = styleZ["browserWindow"] ]_vars

\* C10, as claimed: after showWindow(w) the window is at the centred position,
\* clamped so that neither left nor top is negative.
C10_ShowCentredNonNegative ==
    [][ \A w \in AppWindows :
            OpenWindow(w) =>
                /\ left'[w] = Max(0, (innerWidth - Width(w)) \div 2)
                /\ top'[w] = Max(0, (innerHeight - Height(w)) \div 2) ]_vars

\* C11: showWindow leaves its window active, registered and strictly above every other
\* window; and in every state the active window with the highest z-index is the one,
\* among the active windows, that was brought to front last.
C11_ShownWindowOnTop ==
    /\ [][ \A w \in AppWindows :
             OpenWindow(w) =>
                /\ active'[w]
                /\ w \in DOMAIN windows'
                /\ \A v \in AllWindows \ {w} : styleZ'[v] < styleZ'[w] ]_vars
    /\ [] ( LET order == SelectSeq(frontOrder, LAMBDA v : active[v])
            IN  (\E w \in AllWindows : active[w]) =>
                  /\ Len(order) > 0
                  /\ \A b \in AllWindows :
                        (active[b] /\ b # order[Len(order)]) =>
                            styleZ[b] < styleZ[order[Len(order)]] )

\* the camera and then the notepad were shown: the notepad is on top
C11_Witness ==
    /\ active["cameraWindow"] /\ active["notepadWindow"]
    /\ frontOrder = <<"cameraWindow", "notepadWindow">>
    /\ styleZ["notepadWindow"] = baseZIndex + 2
    /\ styleZ["cameraWindow"] = baseZIndex + 1

\* C12: hideWindow makes its window inactive and changes neither that window's
\* position, nor its z-index, nor the counter, nor the registry, nor any other window.
C12_HideKeepsPositionAndStacking ==
    [][ \A w \in AppWindows :
          /\ CloseWindow(w) => ~active'[w]
          /\ (active[w] /\ ~active'[w]) =>
                /\ left' = left /\ top' = top /\ positioned' = positioned
                /\ styleZ' = styleZ /\ currentZIndex' = currentZIndex
                /\ windows' = windows
                /\ \A v \in AllWindows \ {w} : active'[v] = active[v] ]_vars

\* the camera window was shown and hidden: it keeps its position and its z-index
C12_Witness ==
    /\ ~active["cameraWindow"]
    /\ positioned["cameraWindow"]
    /\ lastFront = "cameraWindow"
    /\ styleZ["cameraWindow"] = baseZIndex + 1
    /\ windows["cameraWindow"] = baseZIndex + 1

\* ----------------------------------------------------- claims, SpecWindows

\* C13: registering a window again leaves its registry entry as it was: the stored
\* z-index is the value the last bringToFront gave and equals the element's z-index.
C13_RegistrationIdempotent ==
    /\ \A w \in DOMAIN windows : styleZ[w] # 0 => windows[w] = styleZ[w]
    /\ wmCall.op = "resetWindowPosition" =>
            windows[wmCall.id] = IF styleZ[wmCall.id] = 0 THEN baseZIndex
                                 ELSE styleZ[wmCall.id]

\* C14: on a resize a registered window is recentred when it is active and its box
\* reaches more than 100px beyond the viewport on the left, top, right or bottom, and
\* is not moved when it is inactive or lies wholly inside the viewport.
C14_ResizeRecentres ==
    [][ \A vp \in Viewports :
          WmResize(vp.w, vp.h) =>
            \A w \in DOMAIN windows :
                LET r == RectNow(w)
                    beyond == \/ r.left < -100
                              \/ r.top < -100
                              \/ r.left + r.width > vp.w + 100
                              \/ r.top + r.height > vp.h + 100
                    inside == /\ r.left >= 0 /\ r.top >= 0
                              /\ r.left + r.width <= vp.w
                              /\ r.top + r.height <= vp.h
                IN  /\ (active[w] /\ beyond) =>
                        /\ positioned'[w]
                        /\ 2 * left'[w] = vp.w - r.width
                        /\ 2 * top'[w] = vp.h - r.height
                    /\ (~active[w] \/ inside) =>
                        /\ left'[w] = left[w] /\ top'[w] = top[w]
                        /\ positioned'[w] = positioned[w] ]_vars

\* a resize to 800x500 moved the camera window, whose right edge was too far out,
\* and left the notepad window, wholly inside, where it was
C14_Witness ==
    /\ wmCall.op = "resize"
    /\ innerWidth = 800
    /\ active["cameraWindow"] /\ active["notepadWindow"]
    /\ wmCall.moved = {"cameraWindow"}
    /\ left["notepadWindow"] = 100 /\ top["notepadWindow"] = 0

\* ------------------------------------------------------ claims, SpecFreeze

\* C3: in every state reached from startup by toggles (button click or Ctrl/Cmd+D),
\* the document's capture-phase interceptors for click, dblclick, mousedown, mouseup,
\* keydown, keypress, keyup, submit and contextmenu are registered exactly when
\* isDrawingMode is on, and none of them is registered more than once.
C3_InterceptorsIffFrozen ==
    LET types == {"click", "dblclick", "mousedown", "mouseup", "keydown", "keypress",
                  "keyup", "submit", "contextmenu"}
    IN  /\ isDrawingMode =>
            \A t \in types : Cardinality({ l \in docListeners : l.type = t }) = 1
        /\ ~isDrawingMode => docListeners = {}

\* the mode was switched on from the keyboard and its nine interceptors are in place
C3_Witness ==
    /\ isDrawingMode
    /\ ~evt.frozen /\ evt.type = "keydown" /\ evt.key = "d" /\ evt.metaKey
    /\ Cardinality(docListeners) = 9

\* C6: while freeze mode is on, a click, dblclick, mousedown or mouseup has its default
\* prevented, its propagation stopped and the same-phase listeners stopped exactly when
\* its target is outside the toggle control, the illustration window, the camera,
\* notepad and gallery windows and their icons; inside them it passes unmodified.
C6_ClickFamilySuppression ==
    LET allowed == {"drawingModeToggle", "drawnComputerWindow", "cameraWindow",
                    "notepadWindow", "galleryWindow", "cameraIcon", "notepadIcon",
                    "galleryIcon"}
        inside == \E id \in allowed : Closest(evt.target, id)
    IN  (evt.frozen /\ evt.type \in {"click", "dblclick", "mousedown", "mouseup"}) =>
            IF inside
            THEN ~evt.defaultPrevented /\ ~evt.propagationStopped /\ ~evt.immediateStopped
            ELSE evt.defaultPrevented /\ evt.propagationStopped /\ evt.immediateStopped

\* a mouse-down on the browser window's address field was swallowed
C6_Witness ==
    /\ evt.frozen /\ evt.type = "mousedown" /\ evt.target = "urlInput"
    /\ evt.defaultPrevented /\ evt.propagationStopped /\ evt.immediateStopped

\* C7, as stated: while freeze mode is on, a submit or contextmenu event follows the
\* click family's rule: outside the allow-list its default is prevented and its
\* propagation stopped, inside the allow-list it is not suppressed.
C7_SubmitContextMenuSameRule ==
    LET allowed == {"drawingModeToggle", "drawnComputerWindow", "cameraWindow",
                    "notepadWindow", "galleryWindow", "cameraIcon", "notepadIcon",
                    "galleryIcon"}
        inside == \E id \in allowed : Closest(evt.target, id)
    IN  (evt.frozen /\ evt.type \in {"submit", "contextmenu"}) =>
            IF inside
            THEN ~evt.defaultPrevented /\ ~evt.propagationStopped
            ELSE evt.defaultPrevented /\ evt.propagationStopped

\* C7, amended: while freeze mode is on, every submit event has its default prevented
\* and its propagation stopped whatever its target, and a contextmenu event has its
\* default prevented by the interceptor exactly when its target is outside the toggle
\* control and never has its propagation stopped.
C7_SubmitAlwaysContextMenuDefaultOnly ==
    /\ (evt.frozen /\ evt.type = "submit") =>
            evt.defaultPrevented /\ evt.propagationStopped
    /\ (evt.frozen /\ evt.type = "contextmenu") =>
            /\ evt.defaultPrevented = ~Closest(evt.target, "drawingModeToggle")
            /\ ~evt.propagationStopped

\* a submission from inside the allow-listed notepad window was suppressed
C7_Witness ==
    /\ evt.frozen /\ evt.type = "submit" /\ evt.target = "penColor"
    /\ evt.defaultPrevented /\ evt.propagationStopped

\* C8: while freeze mode is on, a keydown, keypress or keyup is suppressed exactly when
\* its target is an input, a text area or an editable region and it is not Ctrl/Cmd+D;
\* Ctrl/Cmd+D passes whatever its target, and its keydown switches the mode off.
C8_KeySuppression ==
    LET textLike == {"urlInput", "penColor", "noteArea", "editableRegion"}
        shortcut == (evt.ctrlKey \/ evt.metaKey) /\ evt.key = "d"
    IN  (evt.frozen /\ evt.type \in {"keydown", "keypress", "keyup"}) =>
            /\ IF evt.target \in textLike /\ ~shortcut
               THEN evt.defaultPrevented /\ evt.propagationStopped
               ELSE ~evt.defaultPrevented /\ ~evt.propagationStopped
            /\ (evt.type = "keydown" /\ shortcut) => ~isDrawingMode

\* Ctrl+D pressed in the address field while frozen switched the mode off
C8_Witness ==
    /\ evt.frozen /\ evt.type = "keydown" /\ evt.target = "urlInput"
    /\ evt.key = "d" /\ evt.ctrlKey
    /\ ~evt.propagationStopped /\ ~isDrawingMode /\ docListeners = {}

\* --------------------------------------------------------- claims, SpecApi

\* C4, as stated: after two enable calls in a row every interceptor is registered
\* exactly once, and a single disable after them leaves no interceptor registered.
C4_EnableTwiceRegistersOnce ==
    LET n == Len(calls)
        types == {"click", "dblclick", "mousedown", "mouseup", "keydown", "keypress",
                  "keyup", "submit", "contextmenu"}
    IN  /\ (n >= 2 /\ calls[n] = "enable" /\ calls[n - 1] = "enable") =>
                \A t \in types : Cardinality({ l \in docListeners : l.type = t }) = 1
        /\ calls = <<"enable", "enable", "disable">> => docListeners = {}

\* C5: a disable call removes exactly the listeners the last enable installed and
\* nothing else, leaves the four stored handler references empty, leaves no interceptor
\* registered unless enable had been called twice without a disable in between, and a
\* second disable in a row changes nothing.
C5_DisableRemovesInstalled ==
    /\ [] ( (Len(calls) > 0 /\ calls[Len(calls)] = "disable") =>
              /\ interactionBlocker = 0 /\ keyBlocker = 0
              /\ submitBlocker = 0 /\ contextMenuBlocker = 0
              /\ ~doubleEnabled => docListeners = {} )
    /\ [][ (calls' # calls /\ calls'[Len(calls')] = "disable") =>
              /\ docListeners' \subseteq docListeners
              /\ docListeners \ docListeners' =
                    IF interactionBlocker # 0 THEN ListenersOf(interactionBlocker) ELSE {}
              /\ (Len(calls) > 0 /\ calls[Len(calls)] = "disable") =>
                    docListeners' = docListeners ]_vars

\* enable, disable, disable: nothing is left registered
C5_Witness ==
    /\ calls = <<"enable", "disable", "disable">>
    /\ ~doubleEnabled
    /\ docListeners = {}

\* ------------------------------------------------------ claims, SpecFilter

\* C19: for a frame of one colour, every interior pixel has gradient magnitude 0, is
\* not an edge, and has the value min(255, Y + 30), Y being the colour's luminance; the
\* value is written alike to the R, G and B bytes of the output.
C19_UniformFrameBrightened ==
    LET uniform == \A i \in DOMAIN frame : frame[i] = frame[i % 4]
        Y == Gray(frame, 0)
        lifted == IF Y + 40 * 30 > 40 * 255 THEN 40 * 255 ELSE Y + 40 * 30
    IN  uniform =>
            \A p \in Interior :
                sketch[p].done =>
                    /\ sketch[p].magnitudeSq = 0
                    /\ ~sketch[p].isEdge
                    /\ sketch[p].value = lifted
                    /\ \A c \in 0..2 :
                         /\ 40 * output[sketch[p].idx + c] - 20 <= lifted
                         /\ lifted <= 40 * output[sketch[p].idx + c] + 20

\* a frame that is red all over was filtered: 74.75 + 30 is stored as 105
C19_Witness ==
    /\ \A p \in Pixels : frame[(p[2] * FrameWidth + p[1]) * 4] = 250
    /\ \A p \in Interior :
         /\ sketch[p].done /\ sketch[p].value = 4190
         /\ output[sketch[p].idx] = 105 /\ output[sketch[p].idx + 3] = 255

\* C20: for every interior pixel, with m the gradient magnitude of the luminances of
\* its four diagonal neighbours, the value is max(0, 255 - m) when m > 30 and
\* min(255, Y + 30) when m <= 30; on a 3x3 frame whose left column is black and whose
\* other columns are white the centre has m > 30 and the value max(0, 255 - m).
C20_EdgeDarkFlatBright ==
    \A p \in Interior :
        LET k == sketch[p]
            x == p[1]
            y == p[2]
            at(dx, dy) == Gray(frame, ((y + dy) * FrameWidth + (x + dx)) * 4)
            gx == (at(1, -1) + at(1, 1)) - (at(-1, -1) + at(-1, 1))
            gy == (at(-1, 1) + at(1, 1)) - (at(-1, -1) + at(1, -1))
            mSq == gx * gx + gy * gy
            Y == at(0, 0)
            n == 40 * 255 - k.value
            leftBlack == \A q \in Pixels :
                            frame[(q[2] * FrameWidth + q[1]) * 4] = IF q[1] = 0 THEN 0 ELSE 255
        IN  k.done =>
              /\ mSq > (40 * 30) * (40 * 30) =>
                    /\ k.isEdge
                    /\ IF mSq >= (40 * 255) * (40 * 255) THEN k.value = 0
                       ELSE n * n >= mSq /\ (n - 1) * (n - 1) < mSq
              /\ mSq <= (40 * 30) * (40 * 30) =>
                    /\ ~k.isEdge
                    /\ k.value = (IF Y + 40 * 30 > 40 * 255 THEN 40 * 255 ELSE Y + 40 * 30)
              /\ \A c \in 0..2 :
                    /\ 40 * output[k.idx + c] - 20 <= k.value + 1
                    /\ k.value <= 40 * output[k.idx + c] + 20
              /\ leftBlack => mSq > (40 * 30) * (40 * 30) /\ k.isEdge /\ k.value = 0

\* the frame with the black left column was filtered: m = 510, the centre is black
C20_Witness ==
    /\ \A q \in Pixels : frame[(q[2] * FrameWidth + q[1]) * 4] = IF q[1] = 0 THEN 0 ELSE 255
    /\ \A p \in Interior :
         /\ sketch[p].done /\ sketch[p].isEdge /\ sketch[p].gx = 40 * 510
         /\ output[sketch[p].idx] = 0 /\ output[sketch[p].idx + 3] = 255

\* ------------------------------------------------------------ SpecDrag claims

\* C15: a pointer-down on a drag handle while a drag is going on replaces
\* neither the dragged window nor the start coordinates of the session.
C15_SecondPointerDownIgnored ==
    [][(isDragging /\ \E w \in WindowIds, p \in Pointers : DragPointerDown(w, p.x, p.y))
        => UNCHANGED <<activeWindow, dragStartX, dragStartY, windowStartX, windowStartY>>]_vars

\* C16: the document's pointermove, pointerup and pointercancel listeners are
\* registered, each once, exactly while a drag is going on; when none is going
\* on the manager is idle with no dragged window and none of them registered.
C16_DragListenersWhileDragging ==
    /\ isDragging <=> activeWindow # ""
    /\ isDragging =>
        /\ { l.type : l \in dragListeners } = {"pointermove", "pointerup", "pointercancel"}
        /\ Cardinality(dragListeners) = 3
    /\ ~isDragging => dragListeners = {}

\* two drag sessions of the main window have ended
C16_Witness ==
    /\ ~isDragging
    /\ activeWindow = ""
    /\ dragListeners = {}
    /\ timers = <<"browserWindow", "browserWindow">>

\* C17: when the timeout set at the end of a drag session fires, the transition
\* is re-enabled on the window of that session unless it is being dragged again,
\* and the transition of a window being dragged is left alone.
C17_TransitionRestoredOnDraggedWindow ==
    [][TimerFires =>
        /\ (~(isDragging /\ activeWindow = Head(timers)) => ~transitionNone'[Head(timers)])
        /\ (isDragging => transitionNone'[activeWindow] = transitionNone[activeWindow])]_vars

\* C18: after a pointer-move the dragged window stands at its position at drag
\* start plus the pointer's travel since drag start, clamped to the viewport;
\* a window at (100,100), 300 wide, dragged by (50,-30) on 1200x800 ends at (150,70).
C18_PositionFromDragStart ==
    /\ ClampX(100 + 50, 300, 1200) = 150
    /\ ClampY(100 - 30, 800) = 70
    /\ [][\A p \in Pointers : DragPointerMove(p.x, p.y) =>
            LET w == activeWindow
                newX == windowStartX + (p.x - dragStartX)
                newY == windowStartY + (p.y - dragStartY)
            IN  /\ left'[w] = Max(-(Width(w) - 100), Min(newX, innerWidth - 100))
                /\ top'[w] = Max(0, Min(newY, innerHeight - 50))]_vars

\* the main window dragged by (600,400) on the widest viewport, unclamped
C18_Witness ==
    /\ isDragging
    /\ lastWasMove
    /\ activeWindow = "browserWindow"
    /\ innerWidth = 1200
    /\ dragStartX = 0
    /\ left["browserWindow"] = windowStartX + 600
    /\ top["browserWindow"] = windowStartY + 400

\* ------------------------------------------------- claims, SpecFilter (output)

\* C21: once the filter has run, the image it puts back has the dimensions of the
\* frame, every pixel of it (the 1-pixel border included) has alpha 255, and every
\* pixel the loops wrote has the same value in R, G and B.
C21_OutputOpaqueMonochrome ==
    (\A p \in Interior : sketch[p].done) =>
        /\ DOMAIN output = DOMAIN frame
        /\ \A i \in DOMAIN output : i % 4 = 3 => output[i] = 255
        /\ \A p \in Interior :
              /\ output[sketch[p].idx] = output[sketch[p].idx + 1]
              /\ output[sketch[p].idx] = output[sketch[p].idx + 2]

\* ------------------------------------------------ claims, SpecFreeze (flag)

\* C23: in every state between two event handlers, after startup and any sequence
\* of toggles, isDrawingMode is true exactly when the body carries class drawn-mode.
C23_FlagMatchesBodyClass == isDrawingMode <=> bodyDrawnMode

\* a click on the toggle button switched the mode on: flag and class are both set
C23_Witness ==
    /\ evt.type = "click" /\ evt.target = "toggleIcon" /\ ~evt.frozen
    /\ isDrawingMode
    /\ bodyDrawnMode

\* ------------------------------------------------------ claims, SpecStorage

\* C24: while the storage works, the stored value is 'enabled' exactly when the
\* mode is on, at startup and after every toggle; a toggle that saves stores
\* 'enabled' or 'disabled' by the new mode; and a reload keeps the mode.
C24_StoredPreferenceIsMode ==
    /\ []((storage # "throws" /\ ~writeFailed) => (isDrawingMode <=> storage = "enabled"))
    /\ [][(\E e \in ToggleEvents : ToggleSaved(e)) =>
            storage' = IF isDrawingMode' THEN "enabled" ELSE "disabled"]_vars
    /\ [][(Reload /\ storage # "throws" /\ ~writeFailed) =>
            isDrawingMode' = isDrawingMode]_vars

\* the mode was switched on, saved, and the page loaded again: it is on
C24_Witness ==
    /\ Len(calls) >= 2
    /\ calls[Len(calls) - 1] = "toggle"
    /\ calls[Len(calls)] = "reload"
    /\ isDrawingMode
    /\ storage = "enabled"

\* C25: a page loaded with a storage that cannot be read has the mode off, no
\* drawn-mode class and no interceptor; and after a toggle whose write failed the
\* flag, the class, the button and the interceptors agree as after any toggle.
C25_StorageFailuresContained ==
    LET types == {"click", "dblclick", "mousedown", "mouseup", "keydown", "keypress",
                  "keyup", "submit", "contextmenu"}
    IN  /\ (evt.type = "none" /\ storage = "throws") =>
              ~isDrawingMode /\ ~bodyDrawnMode /\ docListeners = {}
        /\ writeFailed =>
              /\ isDrawingMode <=> bodyDrawnMode
              /\ buttonIcon = IF isDrawingMode THEN "computer" ELSE "pencil"
              /\ isDrawingMode =>
                    \A t \in types : Cardinality({ l \in docListeners : l.type = t }) = 1
              /\ ~isDrawingMode => docListeners = {}

\* the mode was switched on from the keyboard while the storage cannot be written
C25_Witness ==
    /\ writeFailed
    /\ storage = "throws"
    /\ evt.type = "keydown"
    /\ isDrawingMode
    /\ bodyDrawnMode
    /\ Cardinality(docListeners) = 9

\* ------------------------------------------------------- claims, SpecCamera

\* C22: every run of renderCameraFrame takes one path by the state at that moment:
\* nothing is drawn and no further frame requested when the video is paused or has
\* ended or the camera window is not active; else the canvas gets the sketch
\* filter's output when the body is in drawn mode and the raw frame when it is not,
\* and exactly one further frame is requested.
C22_FramePathFollowsMode ==
    [][LET stopped == \/ videoPaused
                      \/ (videoSrc # 0 /\ videoSrc \notin liveStreams)
                      \/ ~active["cameraWindow"]
           Rendered(rest) ==
               IF stopped
               THEN /\ canvas' = canvas
                    /\ pendingFrames' = rest
               ELSE /\ animationFrameId' \notin rest
                    /\ pendingFrames' = rest \cup {animationFrameId'}
                    /\ IF bodyDrawnMode
                       THEN /\ canvas' = output'
                            /\ \A p \in Interior :
                                  /\ sketch'[p].done
                                  /\ canvas'[sketch'[p].idx] = sketch'[p].byte
                                  /\ canvas'[sketch'[p].idx + 3] = 255
                       ELSE /\ canvas' = frame
                            /\ sketch' = sketch
       IN  /\ \A f \in 1..(MaxBring + 1) : FrameCallback(f) => Rendered(pendingFrames \ {f})
           /\ \A c \in 1..MaxCalls : PlayResolved(c) => Rendered(pendingFrames)]_vars

\* a frame was filtered in drawn mode, the mode was switched off, and the next
\* frame was copied raw
C22_Witness ==
    /\ \A p \in Interior : sketch[p].done
    /\ ~bodyDrawnMode
    /\ active["cameraWindow"]
    /\ canvas = frame
    /\ pendingFrames # {}

\* C26: at every moment at most one capture stream is live.
C26_AtMostOneLiveStream == Cardinality(liveStreams) <= 1

\* C27: when getUserMedia rejects, exactly one alert is shown, with the message of
\* the error's class, and afterwards no stream is held or live and no frame
\* callback is pending.
C27_FailedAcquisitionLeavesNothing ==
    [][\A c \in 1..MaxCalls, name \in ErrorNames :
          DeviceFails(c, name) =>
            /\ Len(alertLog') = Len(alertLog) + 1
            /\ alertLog'[Len(alertLog')] =
                  (CASE name = "NotAllowedError" -> "allow camera permissions"
                     [] name = "NotFoundError" -> "no camera found"
                     [] name = "NotReadableError" -> "camera already in use"
                     [] OTHER -> "error.message")
            /\ currentStream' = 0
            /\ liveStreams' = {}
            /\ pendingFrames' = {}]_vars

\* C30: whenever the camera window is not active and no startWebcam call is still
\* awaiting, no capture stream is held or live.
C30_HiddenCameraHoldsNoStream ==
    (~active["cameraWindow"] /\ \A c \in DOMAIN webcamCalls : webcamCalls[c].pc = "idle")
        => (currentStream = 0 /\ liveStreams = {})

\* ------------------------------------------------------ claims, SpecMissing

\* C28: showWindow, hideWindow, centerWindow, resetWindowPosition and bringToFront
\* for a window the document does not have leave the registry, the z-index counter,
\* the z-indexes, the active classes and every position as they were; and in a
\* document without the camera's video or canvas element no startWebcam call gets
\* past its test: no call is awaiting and no stream is held or live.
C28_MissingElementsNoOp ==
    /\ []((missing \cap {"cameraVideo", "cameraCanvas"} # {}) =>
            /\ currentStream = 0
            /\ liveStreams = {}
            /\ \A c \in DOMAIN webcamCalls : webcamCalls[c].pc = "idle")
    /\ [][(\/ CallShowWindow("noSuchWindow")
           \/ CallHideWindow("noSuchWindow")
           \/ CallCenterWindow("noSuchWindow")
           \/ CallResetWindowPosition("noSuchWindow")
           \/ CallBringToFront("noSuchWindow")) =>
            UNCHANGED <<windows, currentZIndex, styleZ, active, positioned, left, top>>]_vars

\* the camera window was opened in a document without the video element, and a
\* window that does not exist was asked to reset its position
C28_Witness ==
    /\ missing = {"cameraVideo"}
    /\ active["cameraWindow"]
    /\ currentStream = 0
    /\ wmCall.op = "resetWindowPosition"
    /\ wmCall.id = "noSuchWindow"
    /\ wmCall.moved = {}

\* -------------------------------------------------------- claims, SpecNotes

C31_OneDragListener ==
    /\ [](drawnListeners <= 1)
    /\ [][(\E p \in Pointers : IllustrationPointerDown(p.x, p.y)) =>
            currentZIndex' = currentZIndex + 1]_vars

\* C33: whenever the mode is off, after any number of toggles, the page is as it
\* was before the first of them: the body has no drawn-mode class, every icon shows
\* its emoji and no drawn image, the button shows the pencil, no interceptor is
\* registered on the document and none is held in a field.
C33_OffStateIsPristine ==
    ~isDrawingMode =>
        /\ ~bodyDrawnMode
        /\ buttonIcon = "pencil"
        /\ \A i \in IconIds : iconText[i] = "emoji" /\ ~iconDrawn[i]
        /\ docListeners = {}
        /\ interactionBlocker = 0 /\ keyBlocker = 0
        /\ submitBlocker = 0 /\ contextMenuBlocker = 0

\* the mode was toggled on and off twice, and is off
C33_Witness ==
    /\ ~isDrawingMode
    /\ drawnListeners = 2
    /\ calls = <<"toggle", "toggle", "toggle">>

\* ---------------------------------------------- claims, SpecStorage (reload)

\* C32: a reload of the page while the mode is on and saved as 'enabled' gives the
\* state the toggle had produced: the same flag, class, button icon and icons, the
\* same interceptors on the same event types, and the illustration at the same
\* centred position, draggable as before.
C32_StartupEnabledIsToggledOn ==
    [][(Reload /\ isDrawingMode /\ storage = "enabled") =>
          /\ isDrawingMode' = isDrawingMode
          /\ bodyDrawnMode' = bodyDrawnMode
          /\ buttonIcon' = buttonIcon
          /\ iconText' = iconText
          /\ iconDrawn' = iconDrawn
          /\ originalIcons' = originalIcons
          /\ { <<l.type, l.kind>> : l \in docListeners' } = { <<l.type, l.kind>> : l \in docListeners }
          /\ positioned'[DrawnComputer] = positioned[DrawnComputer]
          /\ left'[DrawnComputer] = left[DrawnComputer]
          /\ top'[DrawnComputer] = top[DrawnComputer]
          /\ (drawnListeners' > 0) = (drawnListeners > 0)]_vars

\* ------------------------------------------------------ claims, Spec (resize)

\* C36: a resize event that leaves the viewport's size as it is never moves an
\* active window that the last pointer-move of its drag put at a position the
\* drag's constraints allow (left from -(width - 100) to innerWidth - 100, top
\* from 0 to innerHeight - 50).
C36_ClampedPositionSurvivesResize ==
    [][\A w \in WindowIds :
          ( /\ \E vp \in Viewports : Resize(vp.w, vp.h)
            /\ innerWidth' = innerWidth
            /\ innerHeight' = innerHeight
            /\ lastWasMove
            /\ activeWindow = w
            /\ active[w]
            /\ left[w] >= -(Width(w) - DragKeepX)
            /\ left[w] <= innerWidth - DragKeepX
            /\ top[w] >= 0
            /\ top[w] <= innerHeight - DragKeepY )
          => (left'[w] = left[w] /\ top'[w] = top[w])]_vars

\* --------------------------------------------------- claims, SpecCamera (loop)

\* C37: at most one requestAnimationFrame callback of the camera is pending, and
\* when one is pending animationFrameId is its id.
C37_OneRenderLoop ==
    /\ Cardinality(pendingFrames) <= 1
    /\ pendingFrames \subseteq {animationFrameId}

\* ----------------------------------------------------- claims, SpecControls

\* C34: once the timeout of a window's close or minimize control has fired and
\* none is pending for the window, showWindow makes the window visible: it
\* carries class 'active' and its style.display is not 'none'.
C34_ClosedWindowReopens ==
    [][\A w \in DOMAIN ControlOf :
          ( /\ ShowControlled(w)
            /\ \A i \in 1..Len(closeTimers) : closeTimers[i] # w )
          => (active'[w] /\ ~displayNone'[w])]_vars

\* C35: a window that showWindow has shown after the last click on its controls
\* stays active and displayed, whenever the timeouts of those clicks fire.
C35_ShowWinsOverCloseTimer ==
    \A w \in DOMAIN ControlOf : shown[w] => (active[w] /\ ~displayNone[w])

\* --------------------------------------------------------- claims, SpecTabs

\* C38: whatever tab-close buttons are clicked, at least one tab remains in the
\* browser window.
C38_LastTabRemains == Cardinality(tabsInDom) >= 1

\* -------------------------------------------------------- claims, SpecIntro

\* C39: trailClouds never holds more than MAX_TRAIL_CLOUDS clouds; once
\* cleanupCloudCursor has run, neither the cloud cursor nor a trail cloud is in the
\* document and none is tracked, and no step creates a cloud or puts the cursor
\* back, whatever mouse moves and expiry timeouts follow.
C39_TrailBoundedAndCleanedUp ==
    /\ [](/\ Len(trailClouds) <= MAX_TRAIL_CLOUDS
          /\ ~isIntroActive => (~cursorInDom /\ domClouds = {} /\ trailClouds = <<>>))
    /\ [][~isIntroActive => (spawned' = spawned /\ ~cursorInDom' /\ domClouds' = {})]_vars

\* the list was full when a cloud was created, and the intro was cleaned up while
\* expiry timeouts were still pending
C39_Witness ==
    /\ ~isIntroActive
    /\ spawned > MAX_TRAIL_CLOUDS
    /\ cloudTimers # <<>>
    /\ introPhase = "desktop"

====
